---- MODULE Spec2Model ----
(***************************************************************************)
(* The asynchronous file i/o dispatcher of triplegit/src/async_file_io.cpp *)
(* as a state machine: the operation registry (p->ops), the id counter     *)
(* (p->monotoniccount), the ops spinlock, the thread pool's queue of bound *)
(* thunks, the futures and detached promises of the operations, and the    *)
(* callers that submit batches of operations.                              *)
(***************************************************************************)
EXTENDS Integers, Sequences, FiniteSets, TLC

\* ------------------------------------------------------------------ bounds
\* Number of ids the callers may allocate in one behaviour.
MaxOps == 3
\* Longest request vector (and callback vector) of one batch.
MaxBatch == 2

\* static thread_pool ret(1): the number of threads of process_threadpool(),
\* which run the thunks and the i/o service's completion handlers.
PoolThreads == 1

\* The ops the linux close() chains after a close op: the open, the sync and
\* the close of the containing directory.
FollowUps == 3

\* The ids: those the callers' requests are given and those of the follow-up
\* ops of the last close.
Ids == 1..(MaxOps + FollowUps)
\* A handle is named by the id of the op that created it; 0 is the null
\* shared_ptr.
NullHandle == 0

\* The threads that call the public API concurrently.
Submitters == {"s1", "s2"}

\* The public entry points the callers draw from, one per class of primitive:
\* a path op (dir, rmdir, file and rmfile differ in the system call only), a
\* data op (overlapped on windows; on compat it uses and passes through its
\* handle as sync and close do), and the user completion.
Apis == {"file", "read", "completion"}

VARIABLES
  backend,         \* "windows" | "compat": which dispatcher class was made
  monotoniccount,  \* p->monotoniccount
  ops,             \* p->ops: id -> async_file_io_dispatcher_op
  opslock,         \* p->opslock: Free or <<who, id>> of its holder
  pool,            \* the thread pool's queue: ids of the enqueued thunks
  thunk,           \* per id: the bound thunk and how far a worker has run it
  future,          \* per id: shared state of the future in the caller's reference
  refs,            \* per id: the future member h of the async_io_op returned
  sub,             \* per submitter: the entry point call in progress
  known,           \* ids of the op references the callers hold
  allocs,          \* history: the ids in the order they were allocated
  cmpl,            \* history: per id, the call complete_async_op(id, h, e)
  crashed,         \* TRUE once the process has terminated abnormally
  destroyed,       \* TRUE once ~async_file_io_dispatcher_base() has run
  flagsforce,      \* p->flagsforce
  flagsmask,       \* p->flagsmask
  hnd,             \* one async_io_handle: its descriptor, flag and counters
  kernel,          \* what the kernel did for that descriptor
  wk,              \* per pool worker: the primitive it runs on the handle
  path,            \* one path of the filing system: what is there
  pw,              \* per pool worker: the path primitive it runs
  lx,              \* the linux close(): its position, and what it has chained
  data,            \* the bytes of one file and the data requests on it
  hist,            \* history: the references dropped, the calls of the wrapper
  fh,              \* file_handle.hpp: one directory, one section and its maps
  fds              \* p->fds and p->fdslock, the posix handles and descriptors

\* The dispatcher core.
dvars == <<backend, monotoniccount, ops, opslock, pool, thunk, future,
           refs, sub, known, allocs, cmpl, crashed>>
\* The handle layer and the path layer.
hvars == <<hnd, kernel, wk>>
pvars == <<path, pw>>
\* What the steps of the dispatcher core leave alone.
xvars == <<destroyed, flagsforce, flagsmask, hvars, pvars, lx, data, hist, fh, fds>>
vars == <<dvars, xvars>>

\* Pool threads of a dispatcher made over a pool of the caller's own
\* (async_file_io_dispatcher(threadpool, flagsforce, flagsmask)).
MaxWorkers == 2
Workers == 1..MaxWorkers
\* Primitives started on one handle in one behaviour.
MaxJobs == 3
\* Longest write, in bytes.
MaxBytes == 1

\* ------------------------------------------------------------ pure helpers
Free == <<"free", 0>>

Min(a, b) == IF a < b THEN a ELSE b

Range(s) == {s[i] : i \in 1..Len(s)}

\* detail::OpType of the op an entry point creates.
OpTypeOf(api) ==
  IF api = "completion" THEN "UserCompletion" ELSE api

\* The detachedfuture argument each entry point hands to chain_async_ops.
DetachedFuture(api, be) ==
  api \in {"read", "write"} /\ be = "windows"

\* The class of primitive bound into the thunk.
PrimClass(optype, be) ==
  CASE optype \in {"dir", "rmdir", "file", "rmfile"} -> "path"
    [] optype \in {"sync", "close"} -> "handle"
    [] optype \in {"read", "write"} ->
         IF be = "windows" THEN "overlapped" ELSE "handle"
    [] OTHER -> "user"

\* The width in bits of size_t monotoniccount in the model, and ++ on it.
CounterWidth == 4
Incremented(count) == (count + 1) % (2 ^ CounterWidth)

\* while(!(thisid=++p->monotoniccount));
AllocIdRepeat(count) == IF count = 0 THEN 1 ELSE count
AllocIdNoSkip(count) == Incremented(count)
AllocId(count) ==
  IF Incremented(count) = 0 THEN Incremented(Incremented(count))
  ELSE Incremented(count)

\* lock_guard on the spinlock: proceed only when it is unlocked.
TryLockAlways(lock) == TRUE
TryLock(lock) == lock = Free

\* chain_async_op: is the precondition still in flight (found in p->ops)?
InFlightNever(pre, registry) == FALSE
InFlight(pre, registry) == pre # 0 /\ pre \in DOMAIN registry

\* complete_async_op: the order in which the moved-out completions are
\* enqueued (for(auto &c : completions)).
RECURSIVE Reverse(_)
Reverse(s) == IF s = <<>> THEN <<>> ELSE Append(Reverse(Tail(s)), Head(s))
DispatchOrderReversed(completions) == Reverse(completions)
DispatchOrder(completions) == completions

\* p->ops.erase(it)
EraseNothing(registry, id) == registry
Erase(registry, id) == [i \in (DOMAIN registry) \ {id} |-> registry[i]]

\* p->ops.insert(std::make_pair(thisid, op))
Insert(registry, id, rec) == (id :> rec) @@ registry

\* How many times the loop of an entry point calls chain_async_op:
\* for(i, c; i!=ops.end() && c!=callbacks.end(); ++i, ++c) in completion(),
\* for(auto &i : container) elsewhere (n = ncb there).
LoopLimitRequests(n, ncb) == n
LoopLimit(n, ncb) == Min(n, ncb)

\* The bound thunk of an id: pc is how far a worker has run it, h the handle
\* bound as its argument, optype/pre/detached the arguments chain_async_op
\* bound, res/out what the primitive returned, io the state of the deferred
\* completion it issued. The std::function is destroyed when it has run.
NoThunk == [pc |-> "none", h |-> NullHandle, optype |-> "Unknown", pre |-> 0,
            res |-> "none", out |-> NullHandle, io |-> "none"]
GoneThunk == [NoThunk EXCEPT !.pc = "gone"]
NoFuture == [st |-> "none", val |-> NullHandle]
NotCalled == [called |-> FALSE, h |-> NullHandle, e |-> FALSE]
NoSub == [pc |-> "idle", api |-> "none", n |-> 0, ncb |-> 0, reqs |-> <<>>,
          ret |-> <<>>]

\* ------------------------------------------------------------- file flags
\* enum class file_flags as the set of the flags that are set: & is
\* intersection, | union, ~ the complement.
AllFlags == {"Read", "Write", "Append", "Truncate", "Create",
             "CreateOnlyIfNotExist", "AutoFlush",
             "WillBeSequentiallyAccessed", "OSDirect", "OSSync"}
\* The flags the dispatchers of the model force or mask.
ForceMaskFlags == {"AutoFlush"}

\* file_flags fileflags(file_flags flags) const
fileflagsNoForce(flags, force, mask) == flags \ mask
fileflags(flags, force, mask) == (flags \cap (AllFlags \ mask)) \cup force

\* The autoflush argument dofile gives the handle it makes:
\* (AutoFlush|Write)==(req.flags & (AutoFlush|Write)).
AutoFlushOf(flags) ==
  {"AutoFlush", "Write"} = flags \cap {"AutoFlush", "Write"}

\* ------------------------------------------------------------- one handle
\* fd: "none" before the handle is made, then "open", "closed" after doclose.
\* kind: the primitive that made it. The counters are the members of
\* async_io_handle.
NoHandle == [fd |-> "none", kind |-> "none", autoflush |-> FALSE,
             byteswritten |-> 0, byteswrittenatlastfsync |-> 0,
             has_ever_been_fsynced |-> FALSE]
\* written: bytes the kernel took from writes on the descriptor; dirty: those
\* of them no flush has covered yet; sincesync: those written since a dosync
\* last started; flushes: the flushes issued; jobs: the primitives started;
\* last: the primitive that returned last and whether it ran alone.
NoLast == [op |-> "none", alone |-> FALSE]
NoKernel == [written |-> 0, dirty |-> 0, sincesync |-> 0, flushes |-> 0,
             jobs |-> 0, last |-> NoLast]
\* op: the primitive the worker is inside of; bytestobesynced: the local of
\* dosync; flushed: this primitive issued a flush; before: the counters and
\* the kernel's counts when it started, and the primitive that had returned
\* last if no other was running; alone: no other primitive ran on the handle
\* while it did.
IdleWorker == [op |-> "none", pc |-> "idle", bytestobesynced |-> 0,
               flushed |-> FALSE, n |-> 0, alone |-> TRUE,
               before |-> [total |-> 0, atlast |-> 0, dirty |-> 0,
                           sincesync |-> 0, prev |-> NoLast]]

\* --------------------------------------------------------------- one path
\* kind: "none" while nothing exists at the path, else "file" or "dir";
\* calls: the path primitives started; macros: the macros the build sees
\* defined among those dofile tests with #ifdef.
LinuxMacros == {"O_DIRECT", "O_SYNC"}
NoPath == [kind |-> "none", calls |-> 0, macros |-> LinuxMacros]
\* The call of dodir or dofile a worker runs. req: the flags of the request
\* as the caller gave them; flags: the local req.flags; eff: req.flags after
\* the first statement of the primitive called; acted: the flags dofile
\* tested to build its open call; found: what mkdir found at the path;
\* viadir: dofile was called by dodir; out: "handle", "dummy" (a handle
\* without descriptor) or "error" (the primitive threw); oflags: the flags
\* argument dofile gave to open.
NoOpenFlags == [mode |-> "O_RDONLY", bits |-> {}]
NoCall == [prim |-> "none", pc |-> "idle", req |-> {}, flags |-> {},
           eff |-> {}, acted |-> {}, found |-> "none", viadir |-> FALSE,
           out |-> "none", oflags |-> NoOpenFlags]

\* ------------------------------------------------------------ linux close
\* stage: "get" while close() is between its chain_async_op and i.h.get();
\* synced: the handles with has_ever_been_fsynced set; closes: the ids of the
\* close ops close() has chained; wassynced: those of them whose doclose found
\* has_ever_been_fsynced set; follow: per such id the ids of the three ops
\* chained after it; thrown: the ids whose close() call ended by an exception;
\* counts: per handle (named by the id of the op that opened it) byteswritten
\* and byteswrittenatlastfsync; fsyncs: the ids of the sync ops whose dosync
\* called posix_fsync.
NoCounts == [byteswritten |-> 0, byteswrittenatlastfsync |-> 0]
NoLinux == [stage |-> "none", synced |-> {}, closes |-> {}, wassynced |-> {},
            follow |-> <<>>, thrown |-> {},
            counts |-> [i \in Ids |-> NoCounts], fsyncs |-> {}]

\* --------------------------------------------------------------- file data
\* Highest offset of a data request; every request transfers one byte.
MaxOffset == 1
Offsets == 0..MaxOffset
\* bytes: the byte at each offset (0 until written; a write op writes its
\* id); length: the length of the file; op, pre, where: per id the entry
\* point that made it, the precondition and the offset of its request; got:
\* per id the byte its read transferred (-1: none); nullcall: the ids whose
\* primitive was called with a null handle.
NoData == [bytes |-> [o \in Offsets |-> 0], length |-> 0,
           op |-> [i \in Ids |-> "none"], pre |-> [i \in Ids |-> 0],
           where |-> [i \in Ids |-> 0], got |-> [i \in Ids |-> -1],
           nullcall |-> {}]

\* ---------------------------------------------------------------- history
\* dropped: the ids whose reference the caller destroyed before a worker
\* started their thunk; calls: per id the number of calls of
\* complete_async_op; missed: the ids a call of complete_async_op did not find
\* in the registry; promise: per id what complete_async_op did with the
\* detached promise; abandoned: the ids whose chain_async_op call ended by an
\* exception; threw: the ids whose primitive threw; asked: the calls of
\* chain_async_op in order, each with the id it took, its precondition, and
\* its place k among the n requests of the entry point's call.
NoHist == [dropped |-> {}, calls |-> [i \in Ids |-> 0], missed |-> {},
           promise |-> [i \in Ids |-> "none"], abandoned |-> {}, threw |-> {},
           asked |-> <<>>]

\* --------------------------------------------------------- file_handle.hpp
\* Names utils::random_string can return, and the probes of one call of
\* random_file the model follows.
MaxNames == 2
Names == 1..MaxNames
MaxProbes == 3
\* One call of random_file. codes: what file() returned in each iteration of
\* the loop so far ("ok" for a handle, else the error); name: the name of the
\* last iteration; fresh: that name was not in the directory when file() was
\* called with it.
NoProbe == [pc |-> "idle", codes |-> <<>>, name |-> 0, fresh |-> FALSE]
\* The map_handle objects of the model, and the views the kernel can hold.
MaxMaps == 2
Maps == 1..MaxMaps
MaxViews == 3
Views == 1..MaxViews
\* map_handle(): st is "none" for a default-made or moved-from object,
\* "mapped" while it owns a view, "closed" or "released" after close() or
\* release(); view: the view at _addr (0: nullptr).
NoMap == [st |-> "none", view |-> 0]
\* Nothing made yet. names: the files in the directory; rf: per thread its
\* call of random_file; backing: the file_handle a section is made of;
\* section: the section_handle; maps: the map_handle objects; views: the
\* views the kernel has mapped; touched: the maps read or written through
\* while the section was closed; fault: a read or write went to memory that
\* is not mapped.
NoFiles == [names |-> {}, rf |-> [w \in Workers |-> NoProbe],
            backing |-> "none", section |-> "none",
            maps |-> [m \in Maps |-> NoMap], views |-> {}, touched |-> {},
            fault |-> FALSE]

\* ------------------------------------------------- handles and descriptors
\* Handles made and descriptor numbers of the kernel in one behaviour.
MaxHandles == 2
Handles == 1..MaxHandles
MaxDescs == 2
Descs == 1..MaxDescs
\* p->fd=-1 of doclose and of the destructor; also what open returns when it
\* fails.
NoDesc == -1
\* One async_io_handle_posix. st: "none" before its constructor, "live", "gone"
\* after its destructor.
NoPosix == [st |-> "none", fd |-> NoDesc, has_been_added |-> FALSE]
\* What a thread is doing to a handle. h: the handle; fd: the descriptor
\* number it has read from the handle; ops: it holds the ops lock.
NoStep == [pc |-> "idle", h |-> 0, fd |-> NoDesc, ops |-> FALSE]
\* table: p->fds, per key the handle its weak_ptr was made from (0: no
\* entry); lock: the holder of p->fdslock (0: free); open: per descriptor
\* number the handle whose open made it (0: closed); closes: per handle
\* the successful posix_close calls made through it; stolen: the handles
\* that lost their descriptor to a close made through another handle.
NoTable == [table |-> [k \in Descs |-> 0], lock |-> 0,
            open |-> [k \in Descs |-> 0],
            h |-> [x \in Handles |-> NoPosix],
            t |-> [w \in Workers |-> NoStep],
            closes |-> [x \in Handles |-> 0], stolen |-> {}]

\* -------------------------------------------------------------------- Init
DispatcherInit ==
  /\ backend \in {"windows", "compat"}
  /\ monotoniccount = 0
  /\ ops = <<>>
  /\ opslock = Free
  /\ pool = <<>>
  /\ thunk = [i \in Ids |-> NoThunk]
  /\ future = [i \in Ids |-> NoFuture]
  /\ refs = [i \in Ids |-> "none"]
  /\ sub = [s \in Submitters |-> NoSub]
  /\ known = {}
  /\ allocs = <<>>
  /\ cmpl = [i \in Ids |-> NotCalled]
  /\ crashed = FALSE
  /\ destroyed = FALSE

\* No handle made yet, every worker idle.
HandleIdle ==
  /\ hnd = NoHandle
  /\ kernel = NoKernel
  /\ wk = [w \in Workers |-> IdleWorker]

\* No path primitive called yet; nothing at the path.
PathIdle ==
  /\ path = NoPath
  /\ pw = [w \in Workers |-> NoCall]

\* A dispatcher made with no flags forced and none masked.
Init ==
  /\ DispatcherInit
  /\ flagsforce = {}
  /\ flagsmask = {}
  /\ HandleIdle
  /\ PathIdle
  /\ lx = NoLinux
  /\ data = NoData
  /\ hist = NoHist
  /\ fh = NoFiles
  /\ fds = NoTable

\* ------------------------------------------------------------- submission
\* A caller enters dir/rmdir/file/rmfile/sync/close/read/write (chain_async_ops)
\* or completion(): the lock_guard takes p->opslock for the whole loop.
\* n is the length of the request vector, ncb that of the callbacks vector
\* (completion() only; the other entry points have one vector).
BeginBatch(s, api, n, ncb) ==
  /\ ~crashed
  /\ sub[s].pc = "idle"
  /\ TryLock(opslock)
  /\ monotoniccount + n <= MaxOps
  /\ api # "completion" => ncb = n
  /\ PrimClass(OpTypeOf(api), backend) \in {"handle", "overlapped"} => known # {}
  /\ opslock' = <<s, 0>>
  /\ sub' = [sub EXCEPT ![s] = [pc |-> "batch", api |-> api, n |-> n,
                                ncb |-> ncb, reqs |-> <<>>, ret |-> <<>>]]
  /\ UNCHANGED <<backend, monotoniccount, ops, pool, thunk, future,
                 refs, known, allocs, cmpl, crashed>>

\* if(precondition.h.valid()) h=precondition.h.get(): get() rethrows the
\* exception a ready future holds.
GetThrowsNever(valid, st) == FALSE
GetThrows(valid, st) == valid /\ st = "exception"

\* chain_async_op(optype, precondition, detachedfuture, f, args...), called
\* with the ops lock held, for the next element of the request vector.
ChainAsyncOp(s, pre, det) ==
  LET b       == sub[s]
      thisid  == AllocId(monotoniccount)
      chained == InFlight(pre, ops)
      \* precondition.h.valid(): async_io_op ret(shared_from_this(), thisid)
      \* has no future unless ret.h was assigned from enqueue()
      valid   == pre # 0 /\ refs[pre] = "pool"
      h       == IF valid THEN future[pre].val ELSE NullHandle
      bound   == [NoThunk EXCEPT !.optype = OpTypeOf(b.api), !.pre = pre]
      rec     == [optype |-> OpTypeOf(b.api),
                  h |-> IF chained THEN "invalid"
                        ELSE IF det THEN "promise" ELSE "pool",
                  detached_promise |-> IF det THEN "pending" ELSE "none",
                  completions |-> <<>>]
  IN
  /\ monotoniccount' = thisid
  /\ allocs' = Append(allocs, thisid)
  /\ IF chained
     THEN \* dep->second.completions.push_back(boundf)
          /\ ops' = Insert([ops EXCEPT ![pre].completions = Append(@, thisid)],
                           thisid, rec)
          /\ thunk' = [thunk EXCEPT ![thisid] = bound]
          /\ refs' = [refs EXCEPT ![thisid] = "invalid"]
          /\ sub' = [sub EXCEPT ![s].reqs = Append(@, pre),
                                ![s].ret = Append(@, thisid)]
          /\ UNCHANGED <<pool, future, opslock>>
     ELSE \* precondition.h.get() blocks until the precondition's thunk returned
          /\ valid => future[pre].st \in {"value", "exception"}
          /\ IF GetThrows(valid, future[pre].st)
             THEN \* get() rethrows: nothing was linked or inserted; the
                  \* exception leaves the entry point, which unlocks
                  /\ sub' = [sub EXCEPT ![s] = NoSub]
                  /\ opslock' = Free
                  /\ UNCHANGED <<ops, pool, thunk, future, refs>>
             ELSE \* ret.h=threadpool().enqueue(std::bind(boundf.second, h))
                  /\ pool' = Append(pool, thisid)
                  /\ thunk' = [thunk EXCEPT ![thisid] =
                                 [bound EXCEPT !.pc = "queued", !.h = h]]
                  /\ future' = [future EXCEPT ![thisid].st = "pending"]
                  /\ ops' = Insert(ops, thisid, rec)
                  /\ refs' = [refs EXCEPT ![thisid] = "pool"]
                  /\ sub' = [sub EXCEPT ![s].reqs = Append(@, pre),
                                        ![s].ret = Append(@, thisid)]
                  /\ UNCHANGED opslock
  /\ UNCHANGED <<backend, known, cmpl, crashed>>

\* One iteration of the entry point's loop, for a request whose precondition
\* is pre.
ChainOneOn(s, pre) ==
  /\ ~crashed
  /\ sub[s].pc = "batch"
  /\ Len(sub[s].ret) < LoopLimit(sub[s].n, sub[s].ncb)
  /\ PrimClass(OpTypeOf(sub[s].api), backend) \in {"handle", "overlapped"}
       => pre # 0
  /\ \E det \in BOOLEAN :
       /\ sub[s].api # "completion" => det = DetachedFuture(sub[s].api, backend)
       /\ ChainAsyncOp(s, pre, det)

\* One iteration of the entry point's loop.
ChainOne(s) == \E pre \in known \cup {0} : ChainOneOn(s, pre)

\* The loop is over: return ret; the lock_guard unlocks.
EndBatch(s) ==
  /\ ~crashed
  /\ sub[s].pc = "batch"
  /\ Len(sub[s].ret) >= LoopLimit(sub[s].n, sub[s].ncb)
  /\ known' = known \cup Range(sub[s].ret)
  /\ opslock' = Free
  /\ sub' = [sub EXCEPT ![s] = NoSub]
  /\ UNCHANGED <<backend, monotoniccount, ops, pool, thunk, future,
                 refs, allocs, cmpl, crashed>>

\* ------------------------------------------------------ worker: the thunk
\* The outcomes of the primitive f(id, h, args...) bound into the thunk of
\* id, as [res, out, io] records; the empty set means the primitive
\* dereferences a null handle.
\*   dodir/dormdir/dofile/dormfile: a new handle, done; or an exception.
\*   dosync/doclose and the compat doread/dowrite: *h is used, h is passed
\*     through, done; or an exception (ERRHOSFN).
\*   windows doread/dowrite: async_read_at/async_write_at(*p->h, ...) is
\*     issued and (false, h) returned.
\*   invoke_user_completion: what callback(id, h) returns, (true, h) or
\*     (false, h); or the exception it throws.
PrimOutcomes(id) ==
  LET h   == thunk[id].h
      cls == PrimClass(thunk[id].optype, backend)
  IN CASE cls = "path" ->
            {[res |-> "done", out |-> id, io |-> "none"],
             [res |-> "threw", out |-> NullHandle, io |-> "none"]}
       [] cls = "handle" ->
            IF h = NullHandle THEN {}
            ELSE {[res |-> "done", out |-> h, io |-> "none"],
                  [res |-> "threw", out |-> NullHandle, io |-> "none"]}
       [] cls = "overlapped" ->
            IF h = NullHandle THEN {}
            ELSE {[res |-> "notdone", out |-> h, io |-> "issued"]}
       [] OTHER ->
            {[res |-> "done", out |-> h, io |-> "none"],
             [res |-> "notdone", out |-> h, io |-> "issued"],
             [res |-> "threw", out |-> NullHandle, io |-> "none"]}

\* The thunks a pool thread is inside of.
Running == {i \in Ids : thunk[i].pc \in {"ran", "completed"}}
IdleThread == Cardinality(Running) < PoolThreads

\* An idle pool thread takes the oldest thunk off the queue (the i/o service
\* runs what was posted to it first) and runs invoke_async_op_completions up
\* to the return (or throw) of the primitive.
StartThunk(id) ==
  /\ ~crashed
  /\ pool # <<>>
  /\ id = Head(pool)
  /\ thunk[id].pc = "queued"
  /\ IdleThread
  /\ pool' = Tail(pool)
  /\ IF PrimOutcomes(id) = {}
     THEN /\ crashed' = TRUE
          /\ UNCHANGED thunk
     ELSE /\ \E o \in PrimOutcomes(id) :
               thunk' = [thunk EXCEPT ![id].pc = "ran", ![id].res = o.res,
                                      ![id].out = o.out, ![id].io = o.io]
          /\ UNCHANGED crashed
  /\ UNCHANGED <<backend, monotoniccount, ops, opslock, future, refs,
                 sub, known, allocs, cmpl>>

\* complete_async_op: if(it->second.detached_promise) set_exception(e) if e,
\* else set_value(h). The state of the promise afterwards.
Fulfilled(promise, e) ==
  IF promise = "none" THEN "none" ELSE IF e THEN "exception" ELSE "value"

\* complete_async_op(id, h, e), one critical section under the ops lock:
\* find the op, move its completions out and enqueue each of them bound to h
\* (storing in the child's record the promise's future or the future
\* enqueue() returned), fulfil the detached promise with h or e, erase the op
\* (which destroys the record and its promise), unlock.
CompleteAsyncOp(id, h, e) ==
  LET children == DispatchOrder(ops[id].completions)
      sent     == [i \in DOMAIN ops |->
                    IF i = id
                    THEN [ops[i] EXCEPT !.completions = <<>>,
                                        !.detached_promise = Fulfilled(@, e)]
                    ELSE IF i \in Range(children)
                         THEN [ops[i] EXCEPT !.h = IF ops[i].detached_promise = "none"
                                                   THEN "pool" ELSE "promise"]
                         ELSE ops[i]]
  IN
  /\ TryLock(opslock)
  /\ id \in DOMAIN ops
  /\ pool' = pool \o children
  /\ ops' = Erase(sent, id)
  /\ cmpl' = [cmpl EXCEPT ![id] = [called |-> TRUE, h |-> h, e |-> e]]
  /\ UNCHANGED opslock

\* The thunks complete_async_op(id, h) has enqueued, bound to h.
EnqueuedNothing(id, h) == thunk
Enqueued(id, h) ==
  [i \in Ids |->
     IF i \in Range(ops[id].completions)
     THEN [thunk[i] EXCEPT !.pc = "queued", !.h = h]
     ELSE thunk[i]]

\* The handle the wrapper gives to complete_async_op: ret.second when the
\* primitive returned done (line 350), its own argument h from the catch
\* block when the primitive threw (line 386).
PassedOut(th) == th.out
Passed(th) == IF th.res = "done" THEN th.out ELSE th.h

\* The wrapper calls complete_async_op(id, ret.second) when the primitive
\* returned done, complete_async_op(id, h, e) from its catch block when the
\* primitive threw.
Complete(id) ==
  LET h == Passed(thunk[id])
  IN
  /\ ~crashed
  /\ thunk[id].pc = "ran"
  /\ thunk[id].res \in {"done", "threw"}
  /\ CompleteAsyncOp(id, h, thunk[id].res = "threw")
  /\ thunk' = [Enqueued(id, h) EXCEPT ![id].pc = "completed"]
  /\ UNCHANGED <<backend, monotoniccount, future, refs, sub, known,
                 allocs, crashed>>

\* What is left of the thunk of id once the wrapper has returned: the I/O it
\* issued still holds the bound (id, h) for the completion handler.
Returned(th) ==
  IF th.io = "issued" THEN [GoneThunk EXCEPT !.h = th.h, !.io = "issued"]
  ELSE GoneThunk

\* The future enqueue() returned for the thunk, made ready; a reference holds
\* it only when chain_async_op assigned it to ret.h.
MakeReady(id, st, val) ==
  future' = IF refs[id] = "pool"
            THEN [future EXCEPT ![id] = [st |-> st, val |-> val]]
            ELSE future

\* The wrapper returns ret.second to the pool (or rethrows): the future that
\* enqueue() returned becomes ready.
ReturnDone(id) ==
  /\ ~crashed
  /\ thunk[id].pc = "completed"
  /\ thunk' = [thunk EXCEPT ![id] = Returned(@)]
  /\ IF thunk[id].res = "threw"
     THEN MakeReady(id, "exception", NullHandle)
     ELSE MakeReady(id, "value", thunk[id].out)
  /\ UNCHANGED <<backend, monotoniccount, ops, opslock, pool, refs,
                 sub, known, allocs, cmpl, crashed>>

\* After a not-done primitive a build that defines NDEBUG returns at once.
ReturnNotDone(id) ==
  /\ ~crashed
  /\ thunk[id].pc = "ran"
  /\ thunk[id].res = "notdone"
  /\ thunk' = [thunk EXCEPT ![id] = Returned(@)]
  /\ MakeReady(id, "value", thunk[id].out)
  /\ UNCHANGED <<backend, monotoniccount, ops, opslock, pool, refs,
                 sub, known, allocs, cmpl, crashed>>

\* A build without NDEBUG first looks the op up under the lock: it throws when
\* the op is gone (and complete_async_op, called from the catch block, throws
\* again), and terminates when the op has no detached promise.
ReturnNotDoneChecked(id) ==
  /\ ~crashed
  /\ thunk[id].pc = "ran"
  /\ thunk[id].res = "notdone"
  /\ TryLock(opslock)
  /\ IF id \notin DOMAIN ops
     THEN /\ thunk' = [thunk EXCEPT ![id] = Returned(@)]
          /\ MakeReady(id, "exception", NullHandle)
          /\ UNCHANGED crashed
     ELSE IF ops[id].detached_promise = "none"
          THEN /\ crashed' = TRUE
               /\ UNCHANGED <<thunk, future>>
          ELSE /\ thunk' = [thunk EXCEPT ![id] = Returned(@)]
               /\ MakeReady(id, "value", thunk[id].out)
               /\ UNCHANGED crashed
  /\ UNCHANGED <<backend, monotoniccount, ops, opslock, pool, refs,
                 sub, known, allocs, cmpl>>

\* ------------------------------------------- deferred completion (callback)
\* boost_asio_completion_handler(id, h, ec, bytes), run by a thread of the
\* i/o service, calls complete_async_op(id, h, e) with e set iff ec reports an
\* error; the owner of a not-done user completion calls
\* complete_async_op(id, h) from a thread of its own.
Callback(id, ec) ==
  /\ ~crashed
  /\ thunk[id].io = "issued"
  /\ id \in DOMAIN ops
  /\ PrimClass(ops[id].optype, backend) = "overlapped" => IdleThread
  /\ CompleteAsyncOp(id, thunk[id].h, ec)
  /\ thunk' = [Enqueued(id, thunk[id].h) EXCEPT ![id] =
                 IF @.pc = "gone" THEN GoneThunk ELSE [@ EXCEPT !.io = "none"]]
  /\ ec => PrimClass(ops[id].optype, backend) = "overlapped"
  /\ UNCHANGED <<backend, monotoniccount, future, refs, sub, known,
                 allocs, crashed>>

\* -------------------------------------------------------------------- Next
Next ==
  \/ \E s \in Submitters, api \in Apis, n \in 1..MaxBatch, ncb \in 1..MaxBatch :
       BeginBatch(s, api, n, ncb) /\ UNCHANGED xvars
  \/ \E s \in Submitters : ChainOne(s) /\ UNCHANGED xvars
  \/ \E s \in Submitters : EndBatch(s) /\ UNCHANGED xvars
  \/ \E id \in Ids : StartThunk(id) /\ UNCHANGED xvars
  \/ \E id \in Ids : Complete(id) /\ UNCHANGED xvars
  \/ \E id \in Ids : ReturnDone(id) /\ UNCHANGED xvars
  \/ \E id \in Ids : ReturnNotDone(id) /\ UNCHANGED xvars
  \/ \E id \in Ids : ReturnNotDoneChecked(id) /\ UNCHANGED xvars
  \/ \E id \in Ids, ec \in BOOLEAN : Callback(id, ec) /\ UNCHANGED xvars

Spec == Init /\ [][Next]_vars

\* ============================================================== properties
\* size_t wait_queue_depth() const: p->ops.size(), read under the ops lock.
wait_queue_depth == Cardinality(DOMAIN ops)

\* chain_async_op has returned an op reference for id.
Submitted(id) == refs[id] # "none"

\* A worker is inside the thunk of id: the primitive has been called.
Started(id) == thunk[id].pc \in {"ran", "completed"}

\* Nothing is left to happen for id: complete_async_op has run for it, its
\* thunk has returned and no deferred completion is outstanding.
Finished(id) ==
  /\ Submitted(id)
  /\ cmpl[id].called
  /\ thunk[id].pc = "gone"
  /\ thunk[id].io = "none"

\* The future in the reference the caller holds for id is ready.
RefReady(id) == refs[id] = "pool" /\ future[id].st \in {"value", "exception"}

\* The entry point s is in has run its loop to the end and is about to return
\* its vector.
LoopDone(s) ==
  /\ sub[s].pc = "batch"
  /\ Len(sub[s].ret) >= LoopLimit(sub[s].n, sub[s].ncb)

\* C1: once an op a caller was given a reference for has completed and its
\* thunk has returned, the future in that reference is ready (with a handle
\* or with an error), whether the op was enqueued at once or chained.
C1_RefFutureResolves ==
  \A id \in Ids : Finished(id) => RefReady(id)

C3_HandlePassed ==
  \A b \in Ids :
    LET a == thunk[b].pre IN
    (Started(b) /\ a # 0 /\ cmpl[a].called /\ ~cmpl[a].e
       /\ cmpl[a].h # NullHandle)
      => thunk[b].h = cmpl[a].h

\* The ops chained onto a and not yet enqueued.
ChildrenOf(a) ==
  {i \in DOMAIN ops : thunk[i].pc = "none" /\ thunk[i].pre = a}

\* C4: the step in which complete_async_op runs for A appends to the pool's
\* queue exactly the children chained onto A, in their order of submission
\* (ascending id).
C4_ChildrenInOrder ==
  [][\A a \in Ids :
       (~cmpl[a].called /\ cmpl'[a].called) =>
         LET k == Len(pool) IN
         /\ Len(pool') = k + Cardinality(ChildrenOf(a))
         /\ \A i \in 1..k : pool'[i] = pool[i]
         /\ \A i \in (k + 1)..Len(pool') : pool'[i] \in ChildrenOf(a)
         /\ \A i, j \in (k + 1)..Len(pool') : i < j => pool'[i] < pool'[j]
    ]_vars

\* C4 witness: complete_async_op has just enqueued two children of one op,
\* one with a detached promise and one without.
C4_Witness ==
  /\ Len(pool) >= 2
  /\ \E a \in Ids :
       /\ cmpl[a].called
       /\ thunk[pool[1]].pre = a
       /\ thunk[pool[2]].pre = a
       /\ refs[pool[1]] = "invalid"
       /\ refs[pool[2]] = "invalid"
  /\ pool[1] \in DOMAIN ops
  /\ pool[2] \in DOMAIN ops
  /\ ops[pool[1]].detached_promise # ops[pool[2]].detached_promise

C6_RegistryIffPending ==
  /\ \A id \in Ids : id \in DOMAIN ops <=> (Submitted(id) /\ ~cmpl[id].called)
  /\ opslock = Free =>
       wait_queue_depth =
         Cardinality({id \in Ids : Submitted(id) /\ ~cmpl[id].called})

\* C6 witness: with the lock free, one op has completed and two are pending.
C6_Witness ==
  /\ opslock = Free
  /\ wait_queue_depth = 2
  /\ \E id \in Ids : Submitted(id) /\ cmpl[id].called

C8_BatchAtomic ==
  \A s \in Submitters :
    sub[s].pc = "batch" =>
      LET r == sub[s].ret IN
      /\ Len(r) = Len(sub[s].reqs)
      /\ \A i \in 1..Len(r) :
           /\ r[i] = monotoniccount - Len(r) + i
           /\ r[i] \in DOMAIN ops

\* C8 witness: a caller has allocated two ids in one call after another call
\* had allocated one.
C8_Witness ==
  \E s \in Submitters :
    /\ sub[s].pc = "batch"
    /\ Len(sub[s].ret) = 2
    /\ monotoniccount = 3

\* C9: while an op with a detached promise is in the registry (so
\* complete_async_op has not been called for it), the future in the caller's
\* reference is not ready.
C9_DetachedNotReadyEarly ==
  \A id \in DOMAIN ops :
    ops[id].detached_promise # "none" => ~RefReady(id)

\* C10: the future in the caller's reference of an op that completed with an
\* error holds that error.
C10_ErrorObserved ==
  \A id \in Ids :
    (Finished(id) /\ cmpl[id].e) =>
      (refs[id] = "pool" /\ future[id].st = "exception")

\* ================================================================ shutdown
\* ~async_file_io_dispatcher_base(): delete p. It runs when the last
\* shared_ptr to the dispatcher goes (the op references hold one each, the
\* bound thunks only the raw this), here once the callers have dropped their
\* references keeping at most copies of the futures. No entry point is being
\* called, no thunk is queued or running and no overlapped completion is
\* outstanding, so nothing will use the freed dispatcher. The registry goes
\* with its records: the thunks still chained in completion lists and the
\* detached promises are destroyed; no promise is fulfilled and no future is
\* touched.
Destroy ==
  /\ ~crashed
  /\ ~destroyed
  /\ \A s \in Submitters : sub[s].pc = "idle"
  /\ pool = <<>>
  /\ Running = {}
  /\ \A id \in DOMAIN ops :
       thunk[id].io = "issued" => PrimClass(ops[id].optype, backend) = "user"
  /\ destroyed' = TRUE
  /\ ops' = <<>>
  /\ thunk' = [i \in Ids |-> IF thunk[i].pc = "none" /\ i \in DOMAIN ops
                             THEN [thunk[i] EXCEPT !.pc = "gone"]
                             ELSE thunk[i]]
  /\ UNCHANGED <<backend, monotoniccount, opslock, pool, future, refs, sub,
                 known, allocs, cmpl, crashed>>

\* The dispatcher until its destruction.
ShutdownNext ==
  \/ \E s \in Submitters, api \in Apis, n \in 1..MaxBatch, ncb \in 1..MaxBatch :
       ~destroyed /\ BeginBatch(s, api, n, ncb) /\ UNCHANGED xvars
  \/ \E s \in Submitters : ~destroyed /\ ChainOne(s) /\ UNCHANGED xvars
  \/ \E s \in Submitters : ~destroyed /\ EndBatch(s) /\ UNCHANGED xvars
  \/ \E id \in Ids : ~destroyed /\ StartThunk(id) /\ UNCHANGED xvars
  \/ \E id \in Ids : ~destroyed /\ Complete(id) /\ UNCHANGED xvars
  \/ \E id \in Ids : ~destroyed /\ ReturnDone(id) /\ UNCHANGED xvars
  \/ \E id \in Ids : ~destroyed /\ ReturnNotDone(id) /\ UNCHANGED xvars
  \/ \E id \in Ids : ~destroyed /\ ReturnNotDoneChecked(id) /\ UNCHANGED xvars
  \/ \E id \in Ids, ec \in BOOLEAN :
       ~destroyed /\ Callback(id, ec) /\ UNCHANGED xvars
  \/ Destroy /\ UNCHANGED <<flagsforce, flagsmask, hvars, pvars, lx, data,
                            hist, fh, fds>>

ShutdownSpec == Init /\ [][ShutdownNext]_vars

\* An op that was submitted and for which complete_async_op never ran.
Pending(id) == Submitted(id) /\ ~cmpl[id].called

\* C11: once the dispatcher is destroyed, the future in the reference of
\* every op that was still pending because its precondition had not completed
\* is ready and holds an error (CancelledAtShutdown), not a handle.
C11_PendingCancelled ==
  destroyed =>
    \A id \in Ids :
      (Pending(id) /\ thunk[id].pre # 0 /\ Pending(thunk[id].pre))
        => (refs[id] = "pool" /\ future[id].st = "exception")

\* ============================================================ handle layer
\* The primitives of one handle as the pool's workers run them. Which of them
\* may run together is the dispatcher's business (the preconditions the
\* caller gave); here any worker may start any primitive once the handle is
\* made. The system calls succeed unless the descriptor is closed.

\* off_t write_count_since_fsync() const
write_count_since_fsync(h) == h.byteswritten - h.byteswrittenatlastfsync

Busy(w) == wk[w].pc \notin {"idle", "done"}
\* The other workers inside a primitive learn that they do not run alone.
Disturbed(w) ==
  [v \in Workers |-> IF v # w /\ Busy(v) THEN [wk[v] EXCEPT !.alone = FALSE]
                     ELSE wk[v]]
Snapshot ==
  [total |-> hnd.byteswritten, atlast |-> hnd.byteswrittenatlastfsync,
   dirty |-> kernel.dirty, sincesync |-> kernel.sincesync,
   prev |-> IF \A v \in Workers : ~Busy(v) THEN kernel.last ELSE NoLast]
Begun(w, op, n) ==
  [IdleWorker EXCEPT !.op = op, !.n = n, !.before = Snapshot,
                     !.alone = \A v \in Workers \ {w} : ~Busy(v)]

\* dofile(id, _, req): the flags are passed through fileflags, the file is
\* opened and a handle made around the descriptor.
OpenFile(flags) ==
  LET eff == fileflags(flags, flagsforce, flagsmask)
  IN /\ hnd.fd = "none"
     /\ hnd' = [NoHandle EXCEPT !.fd = "open", !.kind = "file",
                                !.autoflush = AutoFlushOf(eff)]
     /\ UNCHANGED <<kernel, wk>>

\* dodir(id, _, req) with Read in the flags: fileflags, mkdir if Create, the
\* Create flags cleared, then dofile (which applies fileflags again and
\* throws if the directory is to be opened for writing); the compat dodir
\* then sets byteswritten to 1.
OpenDir(flags) ==
  LET eff  == fileflags(flags, flagsforce, flagsmask)
      eff2 == fileflags(eff \ {"Create", "CreateOnlyIfNotExist"},
                        flagsforce, flagsmask)
  IN /\ hnd.fd = "none"
     /\ "Read" \in eff
     /\ "Write" \notin eff2
     /\ hnd' = [NoHandle EXCEPT !.fd = "open", !.kind = "dir",
                  !.autoflush = AutoFlushOf(eff2),
                  !.byteswritten = IF backend = "compat" THEN 1 ELSE 0]
     /\ UNCHANGED <<kernel, wk>>

\* byteswritten after a write of n bytes: neither dowrite nor
\* boost_asio_completion_handler (which drops bytes_transferred) touches it.
WriteCount(count, n) == count

\* dowrite(id, h, req), at the point the n bytes are transferred: pwritev
\* returns (compat), or boost_asio_completion_handler is called (windows).
DoWrite(w, n) ==
  /\ ~Busy(w)
  /\ hnd.fd = "open"
  /\ kernel.jobs < MaxJobs
  /\ kernel' = [kernel EXCEPT !.written = @ + n, !.dirty = @ + n,
                              !.sincesync = @ + n, !.jobs = @ + 1,
                              !.last = [op |-> "write", alone |-> FALSE]]
  /\ hnd' = [hnd EXCEPT !.byteswritten = WriteCount(@, n)]
  /\ wk' = [Disturbed(w) EXCEPT ![w] = [Begun(w, "write", n) EXCEPT
                                          !.pc = "done"]]

\* dosync(id, h, op), first statement:
\* size_t bytestobesynced=p->write_count_since_fsync();
SyncRead(w) ==
  /\ ~Busy(w)
  /\ hnd.fd = "open"
  /\ kernel.jobs < MaxJobs
  /\ kernel' = [kernel EXCEPT !.jobs = @ + 1, !.sincesync = 0]
  /\ wk' = [Disturbed(w) EXCEPT ![w] = [Begun(w, "sync", 0) EXCEPT
              !.pc = "read",
              !.bytestobesynced = write_count_since_fsync(hnd)]]
  /\ UNCHANGED hnd

\* if(bytestobesynced) the flush needed.
FlushAlways(bytestobesynced) == TRUE
FlushNeeded(bytestobesynced) == bytestobesynced # 0

\* dosync: if(bytestobesynced) fsync(p->fd) / FlushFileBuffers; the compat
\* dosync then sets has_ever_been_fsynced.
SyncFlush(w) ==
  /\ wk[w].pc = "read"
  /\ IF FlushNeeded(wk[w].bytestobesynced)
     THEN /\ kernel' = [kernel EXCEPT !.flushes = @ + 1, !.dirty = 0]
          /\ wk' = [Disturbed(w) EXCEPT ![w] = [wk[w] EXCEPT
                      !.pc = "flushed", !.flushed = TRUE]]
     ELSE /\ UNCHANGED kernel
          /\ wk' = [wk EXCEPT ![w].pc = "flushed"]
  /\ hnd' = [hnd EXCEPT !.has_ever_been_fsynced =
                          IF backend = "compat" THEN TRUE ELSE @]

\* dosync: p->byteswrittenatlastfsync+=(long) bytestobesynced; return (true, h)
SyncAdd(w) ==
  /\ wk[w].pc = "flushed"
  /\ hnd' = [hnd EXCEPT !.byteswrittenatlastfsync = @ + wk[w].bytestobesynced]
  /\ wk' = [Disturbed(w) EXCEPT ![w] = [wk[w] EXCEPT !.pc = "done"]]
  /\ kernel' = [kernel EXCEPT !.last = [op |-> "sync", alone |-> wk[w].alone]]

\* doclose(id, h, op): if(p->autoflush && p->write_count_since_fsync()) flush;
\* close the descriptor; return (true, h).
DoClose(w) ==
  LET flush == hnd.autoflush /\ FlushNeeded(write_count_since_fsync(hnd))
  IN /\ ~Busy(w)
     /\ hnd.fd = "open"
     /\ kernel.jobs < MaxJobs
     /\ kernel' = [kernel EXCEPT !.jobs = @ + 1,
                     !.flushes = IF flush THEN @ + 1 ELSE @,
                     !.dirty = IF flush THEN 0 ELSE @,
                     !.last = [op |-> "close", alone |-> FALSE]]
     /\ hnd' = [hnd EXCEPT !.fd = "closed"]
     /\ wk' = [Disturbed(w) EXCEPT ![w] = [Begun(w, "close", 0) EXCEPT
                 !.pc = "done", !.flushed = flush]]

\* The flags the callers of the model pass when they open the handle.
OpenFlags == SUBSET {"Read", "Write", "AutoFlush"}

hframe == <<dvars, destroyed, flagsforce, flagsmask, pvars, lx, data, hist, fh, fds>>

HandleNext ==
  \/ \E flags \in OpenFlags : OpenFile(flags) /\ UNCHANGED hframe
  \/ \E flags \in OpenFlags : OpenDir(flags) /\ UNCHANGED hframe
  \/ \E w \in Workers, n \in 1..MaxBytes : DoWrite(w, n) /\ UNCHANGED hframe
  \/ \E w \in Workers : SyncRead(w) /\ UNCHANGED hframe
  \/ \E w \in Workers : SyncFlush(w) /\ UNCHANGED hframe
  \/ \E w \in Workers : SyncAdd(w) /\ UNCHANGED hframe
  \/ \E w \in Workers : DoClose(w) /\ UNCHANGED hframe

\* A dispatcher made with any flags forced and masked; its core stays as made.
HandleInit ==
  /\ DispatcherInit
  /\ flagsforce \in SUBSET ForceMaskFlags
  /\ flagsmask \in SUBSET ForceMaskFlags
  /\ HandleIdle
  /\ PathIdle
  /\ lx = NoLinux
  /\ data = NoData
  /\ hist = NoHist
  /\ fh = NoFiles
  /\ fds = NoTable

HandleSpec == HandleInit /\ [][HandleNext]_vars

\* C12: bytes_written_at_last_fsync <= bytes_written_total in every state of
\* the handle, under every interleaving of writes and syncs.
C12_SyncedAtMostWritten ==
  hnd.byteswrittenatlastfsync <= hnd.byteswritten

\* C13: when a write of n > 0 bytes has succeeded, bytes_written_total is at
\* least n more than when the write started.
C13_WriteCounted ==
  \A w \in Workers :
    (wk[w].op = "write" /\ wk[w].pc = "done")
      => hnd.byteswritten >= wk[w].before.total + wk[w].n

\* The worker has run dosync past its flush.
SyncPastFlush(w) == wk[w].op = "sync" /\ wk[w].pc \in {"flushed", "done"}

C15_FlushOnCloseIffDirty ==
  \A w \in Workers :
    (wk[w].op = "close" /\ wk[w].pc = "done") =>
      /\ wk[w].flushed <=> (hnd.autoflush /\ wk[w].before.dirty > 0)
      /\ hnd.fd = "closed"

\* ============================================================== path layer
\* dodir and dofile as the pool's workers run them on one path. Any worker
\* may be given either primitive with any flags at any time.

\* The flags the callers of the model put in a path request, and the flags
\* the dispatchers of the model force or mask.
PathFlags == SUBSET {"Read", "Create", "CreateOnlyIfNotExist"}
PathForceMask == {"Create"}
\* Path primitives called in one behaviour.
MaxCalls == 2

PathBusy(w) == pw[w].pc \notin {"idle", "done"}

\* What the open call of dofile can do, given what is at the path: O_EXCL
\* fails on anything that exists, O_CREAT makes a file where there is none, a
\* directory cannot be created over or opened for writing; whether the
\* windows dofile can open a directory is left open.
OpenOutcomes(kind, eff, be) ==
  LET excl  == "CreateOnlyIfNotExist" \in eff
      creat == excl \/ "Create" \in eff
  IN CASE kind = "none" -> IF creat THEN {"created"} ELSE {"failed"}
       [] kind = "file" -> IF excl THEN {"failed"} ELSE {"opened"}
       [] OTHER -> IF creat \/ "Write" \in eff THEN {"failed"}
                   ELSE IF be = "compat" THEN {"opened"}
                   ELSE {"opened", "failed"}

\* dodir(id, _, req) is called: req.flags=fileflags(req.flags), then the
\* test for Create.
DirCall(w, flags) ==
  LET eff == fileflags(flags, flagsforce, flagsmask)
  IN /\ ~PathBusy(w)
     /\ path.calls < MaxCalls
     /\ path' = [path EXCEPT !.calls = @ + 1]
     /\ pw' = [pw EXCEPT ![w] = [NoCall EXCEPT
                 !.prim = "dir", !.req = flags, !.flags = eff, !.eff = eff,
                 !.pc = IF "Create" \in eff THEN "mkdir" ELSE "stat"]]

\* dodir: ret=posix_mkdir / CreateDirectory; the result is set to success
\* for EEXIST without CreateOnlyIfNotExist and is not looked at again; the
\* two Create flags are cleared.
DirMkdir(w) ==
  /\ pw[w].pc = "mkdir"
  /\ path' = [path EXCEPT !.kind = IF @ = "none" THEN "dir" ELSE @]
  /\ pw' = [pw EXCEPT ![w] = [pw[w] EXCEPT
              !.pc = "stat", !.found = path.kind,
              !.flags = @ \ {"Create", "CreateOnlyIfNotExist"}]]

\* dodir: ret=posix_stat / GetFileAttributes; "Not a directory" is thrown if
\* something else is there; then dofile(id, _, req) if Read, else the dummy
\* handle is returned.
DirStat(w) ==
  /\ pw[w].pc = "stat"
  /\ pw' = [pw EXCEPT ![w] =
              IF path.kind = "file"
              THEN [pw[w] EXCEPT !.pc = "done", !.out = "error"]
              ELSE IF "Read" \in pw[w].flags
              THEN [pw[w] EXCEPT !.pc = "dofile", !.viadir = TRUE]
              ELSE [pw[w] EXCEPT !.pc = "done", !.out = "dummy"]]
  /\ UNCHANGED path

\* dofile(id, _, req) is called by a thunk.
FileCall(w, flags) ==
  /\ ~PathBusy(w)
  /\ path.calls < MaxCalls
  /\ path' = [path EXCEPT !.calls = @ + 1]
  /\ pw' = [pw EXCEPT ![w] = [NoCall EXCEPT
              !.prim = "file", !.req = flags, !.flags = flags,
              !.pc = "dofile"]]

\* The macro dofile tests before it maps OSSync: #ifdef OS_SYNC.
SyncMacro == "OS_SYNC"

\* dofile: int flags=0; then the tests of req.flags in order. mode is the
\* access mode (flags stays 0, which is O_RDONLY, when neither Read nor
\* Write is set), bits the other flags or'ed in.
PosixOpenFlags(eff, macros) ==
  [mode |-> IF {"Read", "Write"} \subseteq eff THEN "O_RDWR"
            ELSE IF "Read" \in eff THEN "O_RDONLY"
            ELSE IF "Write" \in eff THEN "O_WRONLY"
            ELSE "O_RDONLY",
   bits |-> (IF "Append" \in eff THEN {"O_APPEND"} ELSE {})
      \cup (IF "Truncate" \in eff THEN {"O_TRUNC"} ELSE {})
      \cup (IF "CreateOnlyIfNotExist" \in eff THEN {"O_EXCL", "O_CREAT"}
            ELSE IF "Create" \in eff THEN {"O_CREAT"} ELSE {})
      \cup (IF "O_DIRECT" \in macros /\ "OSDirect" \in eff
            THEN {"O_DIRECT"} ELSE {})
      \cup (IF SyncMacro \in macros /\ "OSSync" \in eff
            THEN {"O_SYNC"} ELSE {})]

\* dofile: req.flags=fileflags(req.flags); the open flags are built from
\* them; the handle is made around what open returned, its constructor
\* throwing if that is no descriptor.
DoFile(w, res) ==
  LET eff == fileflags(pw[w].flags, flagsforce, flagsmask)
  IN /\ pw[w].pc = "dofile"
     /\ res \in OpenOutcomes(path.kind, eff, backend)
     /\ path' = [path EXCEPT !.kind = IF res = "created" THEN "file" ELSE @]
     /\ pw' = [pw EXCEPT ![w] = [pw[w] EXCEPT
                 !.pc = "done", !.flags = eff, !.acted = eff,
                 !.oflags = PosixOpenFlags(eff, path.macros),
                 !.eff = IF pw[w].viadir THEN @ ELSE eff,
                 !.out = IF res = "failed" THEN "error" ELSE "handle"]]

pframe == <<dvars, destroyed, flagsforce, flagsmask, hvars, lx, data, hist, fh, fds>>

PathNext ==
  \/ \E w \in Workers, flags \in PathFlags : DirCall(w, flags) /\ UNCHANGED pframe
  \/ \E w \in Workers : DirMkdir(w) /\ UNCHANGED pframe
  \/ \E w \in Workers : DirStat(w) /\ UNCHANGED pframe
  \/ \E w \in Workers, flags \in PathFlags : FileCall(w, flags) /\ UNCHANGED pframe
  \/ \E w \in Workers, res \in {"created", "opened", "failed"} :
       DoFile(w, res) /\ UNCHANGED pframe

\* A dispatcher made with any flags forced and masked, and a path at which
\* there is nothing yet.
PathInit ==
  /\ DispatcherInit
  /\ flagsforce \in SUBSET PathForceMask
  /\ flagsmask \in SUBSET PathForceMask
  /\ HandleIdle
  /\ PathIdle
  /\ lx = NoLinux
  /\ data = NoData
  /\ hist = NoHist
  /\ fh = NoFiles
  /\ fds = NoTable

PathSpec == PathInit /\ [][PathNext]_vars

\* dofile has run in the call of the worker.
RanFile(w) == pw[w].pc = "done" /\ (pw[w].prim = "file" \/ pw[w].viadir)

\* C17: the flags dodir and dofile act on are (request.flags & ~mask) | force
\* of the flags they were called with (dodir calls dofile with its own
\* effective flags, less the two Create flags if it made the directory);
\* where dodir passes its flags on to dofile unchanged, dofile's second
\* application changes nothing; and over
\* all sets of the ten flags the transformation is that formula and is
\* idempotent.
C17_EffectiveFlags ==
  /\ \A w \in Workers :
       /\ (pw[w].prim = "dir" /\ pw[w].pc # "idle")
            => pw[w].eff = (pw[w].req \ flagsmask) \cup flagsforce
       /\ (RanFile(w) /\ pw[w].prim = "file")
            => pw[w].acted = (pw[w].req \ flagsmask) \cup flagsforce
       /\ (RanFile(w) /\ pw[w].prim = "dir")
            => /\ "Create" \in pw[w].eff =>
                    pw[w].acted =
                      ((pw[w].eff \ {"Create", "CreateOnlyIfNotExist"})
                         \ flagsmask) \cup flagsforce
               /\ "Create" \notin pw[w].eff => pw[w].acted = pw[w].eff
  /\ path.calls = 0 => \A f \in SUBSET AllFlags :
       LET once == fileflags(f, flagsforce, flagsmask)
       IN /\ once = (f \ flagsmask) \cup flagsforce
          /\ fileflags(once, flagsforce, flagsmask) = once

\* C17 witness: a dir request with a masked flag set went through dodir and
\* dofile of a dispatcher that forces a flag.
C17_Witness ==
  \E w \in Workers :
    /\ RanFile(w)
    /\ pw[w].prim = "dir"
    /\ pw[w].req \cap flagsmask # {}
    /\ flagsforce # {}

\* C18: a dir op whose effective flags hold Create and CreateOnlyIfNotExist
\* and which found a directory at its path ends with an error.
C18_ExistingDirRefused ==
  \A w \in Workers :
    ( /\ pw[w].prim = "dir"
      /\ pw[w].pc = "done"
      /\ {"Create", "CreateOnlyIfNotExist"} \subseteq pw[w].eff
      /\ pw[w].found = "dir" )
      => pw[w].out = "error"

\* ============================================================= linux close
\* async_file_io_dispatcher_compat built for linux, with one thread calling
\* dir(), file(), sync() and close(), one request a call.
CloseApis == {"dir", "file", "sync", "close"}
CloseCaller == "s1"

lframe == <<destroyed, flagsforce, flagsmask, hvars, pvars, data, hist, fh, fds>>

\* The last element of a non-empty sequence, and the sequence with its last
\* element replaced.
Last(s) == s[Len(s)]
WithLast(s, x) == [s EXCEPT ![Len(s)] = x]

\* chain_async_op for a precondition that is in flight: boundf is pushed on
\* the precondition's completions and the new record, whose future is the
\* one of the default-made reference, is inserted.
ChainedOn(registry, pre, id, optype) ==
  Insert([registry EXCEPT ![pre].completions = Append(@, id)], id,
         [optype |-> optype, h |-> "invalid", detached_promise |-> "none",
          completions |-> <<>>])

\* close(): auto op(chain_async_op(close, i, false, doclose, i)).
CloseChainOne(s) ==
  /\ lx.stage = "none"
  /\ ChainOne(s)
  /\ lx' = IF sub[s].api = "close" /\ sub'[s].pc = "batch"
           THEN [lx EXCEPT !.stage = "get", !.closes = @ \cup {monotoniccount'}]
           ELSE lx

\* close(), the part under #ifdef __linux__, still holding the ops lock:
\* i.h.get() on the reference the caller passed (it throws if the reference
\* has no future or the future holds an exception, and waits while the
\* future is not ready), then the test of has_ever_been_fsynced and the
\* three chain_async_op calls, each on an op that is in the registry.
LinuxClose(s) ==
  LET i  == Last(sub[s].reqs)
      op == Last(sub[s].ret)
      h  == future[i].val
      d1 == AllocId(monotoniccount)
      d2 == AllocId(d1)
      d3 == AllocId(d2)
  IN
  /\ ~crashed
  /\ sub[s].pc = "batch"
  /\ lx.stage = "get"
  /\ refs[i] = "pool" => future[i].st # "pending"
  /\ IF refs[i] # "pool" \/ future[i].st = "exception"
     THEN /\ sub' = [sub EXCEPT ![s] = NoSub]
          /\ opslock' = Free
          /\ lx' = [lx EXCEPT !.stage = "none", !.thrown = @ \cup {op}]
          /\ UNCHANGED <<monotoniccount, ops, thunk, refs, allocs, crashed>>
     ELSE IF h = NullHandle
     THEN /\ crashed' = TRUE
          /\ UNCHANGED <<monotoniccount, ops, thunk, refs, allocs, sub,
                         opslock, lx>>
     ELSE IF h \in lx.synced
     THEN /\ monotoniccount' = d3
          /\ allocs' = allocs \o <<d1, d2, d3>>
          /\ ops' = ChainedOn(ChainedOn(ChainedOn(ops, op, d1, "file"),
                                        d1, d2, "sync"), d2, d3, "close")
          /\ thunk' = [thunk EXCEPT
                         ![d1] = [NoThunk EXCEPT !.optype = "file", !.pre = op],
                         ![d2] = [NoThunk EXCEPT !.optype = "sync", !.pre = d1],
                         ![d3] = [NoThunk EXCEPT !.optype = "close", !.pre = d2]]
          /\ refs' = [refs EXCEPT ![d1] = "invalid", ![d2] = "invalid",
                                  ![d3] = "invalid"]
          /\ sub' = [sub EXCEPT ![s].ret = WithLast(@, d3)]
          /\ lx' = [lx EXCEPT !.stage = "none",
                              !.follow = (op :> <<d1, d2, d3>>) @@ @]
          /\ UNCHANGED <<opslock, crashed>>
     ELSE /\ lx' = [lx EXCEPT !.stage = "none"]
          /\ UNCHANGED <<monotoniccount, ops, thunk, refs, allocs, sub,
                         opslock, crashed>>
  /\ UNCHANGED <<backend, pool, future, known, cmpl>>

\* dodir called with Read (the flags dir() is given here): the handle dofile
\* made, with byteswritten set to 1.
DirCounts == [NoCounts EXCEPT !.byteswritten = 1]

\* A worker runs a thunk up to the return of its primitive: dodir sets
\* byteswritten of the handle it opened; dosync calls posix_fsync when
\* write_count_since_fsync() is not 0, and when that did not fail sets
\* has_ever_been_fsynced and adds the count to byteswrittenatlastfsync.
CloseStartThunk(id) ==
  LET h == thunk[id].h
      bytestobesynced == write_count_since_fsync(lx.counts[h])
  IN
  /\ StartThunk(id)
  /\ lx' = IF thunk[id].optype = "sync" /\ ~crashed'
           THEN IF thunk'[id].res = "done"
                THEN [lx EXCEPT !.synced = @ \cup {h},
                                !.fsyncs = IF FlushNeeded(bytestobesynced)
                                           THEN @ \cup {id} ELSE @,
                                !.counts[h].byteswrittenatlastfsync =
                                   @ + bytestobesynced]
                ELSE [lx EXCEPT !.fsyncs = IF FlushNeeded(bytestobesynced)
                                           THEN @ \cup {id} ELSE @]
           ELSE IF thunk'[id].res # "done" THEN lx
           ELSE IF thunk[id].optype = "dir"
           THEN [lx EXCEPT !.counts[id] = DirCounts]
           ELSE IF id \in lx.closes /\ h \in lx.synced
           THEN [lx EXCEPT !.wassynced = @ \cup {id}]
           ELSE lx

CloseNext ==
  \/ \E api \in CloseApis :
       BeginBatch(CloseCaller, api, 1, 1) /\ UNCHANGED xvars
  \/ CloseChainOne(CloseCaller) /\ UNCHANGED lframe
  \/ LinuxClose(CloseCaller) /\ UNCHANGED lframe
  \/ lx.stage = "none" /\ EndBatch(CloseCaller) /\ UNCHANGED xvars
  \/ \E id \in Ids : CloseStartThunk(id) /\ UNCHANGED lframe
  \/ \E id \in Ids : Complete(id) /\ UNCHANGED xvars
  \/ \E id \in Ids : ReturnDone(id) /\ UNCHANGED xvars

CloseInit ==
  /\ Init
  /\ backend = "compat"

CloseSpec == CloseInit /\ [][CloseNext]_vars

\* The close op c and the follow-up ops chained after it, in order.
CloseChain(c) == <<c>> \o lx.follow[c]

\* C16: when the close op of a file whose handle was synced has completed,
\* the open, the sync and the close of the containing directory have been
\* registered after it, each with the one before as its precondition, and
\* none of the four starts or completes before the one before it completed.
C16_CloseSpawnsDirSync ==
  \A c \in lx.wassynced :
    (cmpl[c].called /\ ~cmpl[c].e) =>
      /\ c \in DOMAIN lx.follow
      /\ \A k \in 1..FollowUps :
           LET a == CloseChain(c)[k]
               b == CloseChain(c)[k + 1]
           IN /\ Submitted(b)
              /\ (Started(b) \/ cmpl[b].called) => cmpl[a].called

\* =============================================================== file data
\* One thread calling file(), write() and read(), one request a call, every
\* handle being one of the same file; either backend.
DataApis == {"file", "write", "read"}
DataCaller == "s1"

dframe == <<destroyed, flagsforce, flagsmask, hvars, pvars, lx, hist, fh, fds>>

Max(a, b) == IF a > b THEN a ELSE b

\* The transfer of the byte of the request of id: pwritev/preadv at
\* req.where on compat, async_write_at/async_read_at on windows. A read at or
\* past the end of the file transfers nothing.
Transferred(d, id, optype) ==
  LET o == d.where[id]
  IN IF optype = "write"
     THEN [d EXCEPT !.bytes[o] = id, !.length = Max(@, o + 1)]
     ELSE IF optype = "read"
     THEN [d EXCEPT !.got[id] = IF o < d.length THEN d.bytes[o] ELSE -1]
     ELSE d

\* chain_async_ops: chain_async_op(optype, i.precondition, detachedfuture,
\* f, i) with the request i, whose offset is where.
DataChainOne(s, where) ==
  /\ ChainOne(s)
  /\ sub[s].api = "file" => where = 0
  /\ data' = IF sub'[s].pc = "batch"
             THEN [data EXCEPT !.op[monotoniccount'] = sub[s].api,
                               !.pre[monotoniccount'] = Last(sub'[s].reqs),
                               !.where[monotoniccount'] = where]
             ELSE data

\* A worker runs a thunk up to the return of its primitive: the compat
\* dowrite and doread transfer the byte before they return.
DataStartThunk(id) ==
  /\ StartThunk(id)
  /\ data' = IF PrimOutcomes(id) = {}
             THEN [data EXCEPT !.nullcall = @ \cup {id}]
             ELSE IF /\ thunk'[id].res = "done"
                     /\ PrimClass(thunk[id].optype, backend) = "handle"
             THEN Transferred(data, id, thunk[id].optype)
             ELSE data

\* boost_asio_completion_handler: with no error the byte was transferred.
DataCallback(id, ec) ==
  /\ Callback(id, ec)
  /\ data' = IF ec THEN data ELSE Transferred(data, id, ops[id].optype)

DataNext ==
  \/ \E api \in DataApis :
       BeginBatch(DataCaller, api, 1, 1) /\ UNCHANGED xvars
  \/ \E where \in Offsets : DataChainOne(DataCaller, where) /\ UNCHANGED dframe
  \/ EndBatch(DataCaller) /\ UNCHANGED xvars
  \/ \E id \in Ids : DataStartThunk(id) /\ UNCHANGED dframe
  \/ \E id \in Ids : Complete(id) /\ UNCHANGED xvars
  \/ \E id \in Ids : ReturnDone(id) /\ UNCHANGED xvars
  \/ \E id \in Ids : ReturnNotDone(id) /\ UNCHANGED xvars
  \/ \E id \in Ids : ReturnNotDoneChecked(id) /\ UNCHANGED xvars
  \/ \E id \in Ids, ec \in BOOLEAN : DataCallback(id, ec) /\ UNCHANGED dframe

DataSpec == Init /\ [][DataNext]_vars

\* complete_async_op(id, h) was called without an error.
Succeeded(id) == cmpl[id].called /\ ~cmpl[id].e

\* The write ops of the behaviour, and those with precondition f.
Writes == {w \in Ids : data.op[w] = "write"}
WritesAfter(f) == {w \in Writes : data.pre[w] = f}

\* C19: a read op whose precondition is a write op that succeeded, at the
\* offset of that write and with no other write at that offset, has its
\* primitive called with the handle of the file, and when it has succeeded
\* the byte it transferred is the byte that write wrote.
C19_ReadSeesWrite ==
  \A r, w \in Ids :
    ( /\ data.op[r] = "read"
      /\ data.pre[r] = w
      /\ w \in Writes
      /\ data.where[r] = data.where[w]
      /\ \A v \in Writes \ {w} : data.where[v] # data.where[w]
      /\ Succeeded(w) )
      => /\ r \notin data.nullcall
         /\ Succeeded(r) => data.got[r] = w

\* C20: the write ops submitted with a file-open op that succeeded as their
\* precondition, at pairwise different offsets, have their primitives called
\* with the handle of the file; when they are the only writes and all have
\* succeeded, the length of the file is the greatest offset+length of them.
C20_FanOutCompletes ==
  \A f \in Ids :
    ( /\ data.op[f] = "file"
      /\ Succeeded(f)
      /\ \A v, w \in WritesAfter(f) : v # w => data.where[v] # data.where[w] )
      => /\ WritesAfter(f) \cap data.nullcall = {}
         /\ ( /\ WritesAfter(f) = Writes
              /\ Writes # {}
              /\ \A w \in Writes : Succeeded(w) )
              => /\ \E w \in Writes : data.length = data.where[w] + 1
                 /\ \A w \in Writes : data.length >= data.where[w] + 1

\* ===================================================== dropped references
\* One thread that submits ops and destroys the op references it was
\* returned, while the dispatcher stays alive (its owner keeps a shared_ptr).
DropCaller == "s1"

\* What the steps of this layer and of the wrapper layer leave alone.
wframe == <<destroyed, flagsforce, flagsmask, hvars, pvars, lx, data, fh, fds>>

\* The registry after ~async_io_op(): the reference's members are the
\* dispatcher's shared_ptr, the id and a copy of the future; the record of
\* the op and its bound thunk belong to the registry.
AfterDrop(registry, id) == registry

\* The caller destroys the reference of id, the last copy it holds, while
\* the op is in the registry.
Drop(id) ==
  /\ ~crashed
  /\ id \in known
  /\ id \in DOMAIN ops
  /\ known' = known \ {id}
  /\ ops' = AfterDrop(ops, id)
  /\ hist' = [hist EXCEPT !.dropped =
                IF thunk[id].pc \in {"none", "queued"} THEN @ \cup {id} ELSE @]
  /\ UNCHANGED <<backend, monotoniccount, opslock, pool, thunk, future,
                 refs, sub, allocs, cmpl, crashed>>

DropNext ==
  \/ \E api \in Apis, n \in 1..MaxBatch :
       BeginBatch(DropCaller, api, n, n) /\ UNCHANGED xvars
  \/ ChainOne(DropCaller) /\ UNCHANGED xvars
  \/ EndBatch(DropCaller) /\ UNCHANGED xvars
  \/ \E id \in Ids : Drop(id) /\ UNCHANGED wframe
  \/ \E id \in Ids : StartThunk(id) /\ UNCHANGED xvars
  \/ \E id \in Ids : Complete(id) /\ UNCHANGED xvars
  \/ \E id \in Ids : ReturnDone(id) /\ UNCHANGED xvars
  \/ \E id \in Ids : ReturnNotDone(id) /\ UNCHANGED xvars
  \/ \E id \in Ids : ReturnNotDoneChecked(id) /\ UNCHANGED xvars
  \/ \E id \in Ids, ec \in BOOLEAN : Callback(id, ec) /\ UNCHANGED xvars

DropSpec == Init /\ [][DropNext]_vars

\* The ops that were chained onto a when they were submitted and whose thunk
\* has not returned.
ChainedAfter(a) == {b \in Ids : refs[b] = "invalid" /\ thunk[b].pre = a}

\* C21: destroying the reference of an op changes nothing of the registry,
\* the pool, the thunks and the futures; an op whose reference was destroyed
\* before its thunk started is in the registry until complete_async_op runs
\* for it, stays chained on its precondition or queued in the pool until a
\* worker starts it, and once it has completed every op chained onto it has
\* been enqueued.
C21_DropDoesNotCancel ==
  /\ [](\A id \in hist.dropped :
          /\ id \in DOMAIN ops <=> ~cmpl[id].called
          /\ thunk[id].pc = "none" =>
               /\ thunk[id].pre \in DOMAIN ops
               /\ id \in Range(ops[thunk[id].pre].completions)
          /\ (thunk[id].pc = "queued" /\ ~crashed) => id \in Range(pool)
          /\ cmpl[id].called =>
               \A b \in ChainedAfter(id) : thunk[b].pc # "none")
  /\ [][\A id \in known \ known' :
          /\ ops' = ops
          /\ pool' = pool
          /\ thunk' = thunk
          /\ future' = future
          /\ cmpl' = cmpl]_vars

\* C21 witness: an op whose reference was destroyed before its thunk started
\* has completed and its thunk has returned, and a worker has started an op
\* that was chained onto it.
C21_Witness ==
  \E a \in hist.dropped :
    /\ Finished(a)
    /\ \E b \in ChainedAfter(a) : Started(b)

\* ============================================================= random_file
\* file_handle::random_file(dirpath) called by several threads on one
\* directory in which nothing is deleted.

\* file(dirpath / randomname, _mode, creation::only_if_not_exist, ...): the
\* exclusive create fails with EEXIST if the name exists and makes the file
\* if not; it may fail for another reason in either case.
FileOutcomes(exists) ==
  IF exists THEN {"EEXIST", "EACCES"} ELSE {"ok", "EACCES"}

\* if(!ret && ret.get_error().value() != EEXIST) return ret;
LeavesEarlyAlways(code) == code # "ok"
LeavesEarly(code) == code # "ok" /\ code # "EEXIST"
\* } while(!ret);
LoopsAgain(code) == code # "ok"

rframe == <<dvars, destroyed, flagsforce, flagsmask, hvars, pvars, lx, data,
            hist, fds>>

\* random_file is called: result<file_handle> ret; do {
RandomCall(w) ==
  /\ fh.rf[w].pc \in {"idle", "returned"}
  /\ fh' = [fh EXCEPT !.rf[w] = [NoProbe EXCEPT !.pc = "probing"]]

\* One iteration of the loop: a name is drawn, file() is called with it, and
\* the function returns ret or goes round again.
Probe(w, name, res) ==
  LET exists == name \in fh.names
  IN /\ fh.rf[w].pc = "probing"
     /\ Len(fh.rf[w].codes) < MaxProbes
     /\ res \in FileOutcomes(exists)
     /\ fh' = [fh EXCEPT
                 !.names = IF res = "ok" THEN @ \cup {name} ELSE @,
                 !.rf[w] = [pc |-> IF LeavesEarly(res) \/ ~LoopsAgain(res)
                                   THEN "returned" ELSE "probing",
                            codes |-> Append(@.codes, res),
                            name |-> name,
                            fresh |-> ~exists]]

\* utils::random_string or the path's operator/ throws (bad_alloc):
\* BOOST_OUTCOME_CATCH_EXCEPTION_TO_RESULT returns the exception's error.
ProbeThrows(w) ==
  /\ fh.rf[w].pc = "probing"
  /\ Len(fh.rf[w].codes) < MaxProbes
  /\ fh' = [fh EXCEPT !.rf[w] = [@ EXCEPT !.pc = "returned",
                                          !.codes = Append(@, "ENOMEM")]]

RandomNext ==
  \/ \E w \in Workers : RandomCall(w) /\ UNCHANGED rframe
  \/ \E w \in Workers, name \in Names, res \in {"ok", "EEXIST", "EACCES"} :
       Probe(w, name, res) /\ UNCHANGED rframe
  \/ \E w \in Workers : ProbeThrows(w) /\ UNCHANGED rframe

\* A directory that holds any of the names already.
RandomInit ==
  /\ DispatcherInit
  /\ flagsforce = {}
  /\ flagsmask = {}
  /\ HandleIdle
  /\ PathIdle
  /\ lx = NoLinux
  /\ data = NoData
  /\ hist = NoHist
  /\ fh \in {[NoFiles EXCEPT !.names = n] : n \in SUBSET Names}
  /\ fds = NoTable

RandomSpec == RandomInit /\ [][RandomNext]_vars

\* C22: a call of random_file that has returned got EEXIST from every
\* iteration but its last, and its last iteration was a create of a name
\* that was not in the directory or a failure other than EEXIST; a call that
\* is still in its loop has seen nothing but EEXIST.
C22_RandomFileRetries ==
  \A w \in Workers :
    LET c == fh.rf[w].codes
    IN /\ fh.rf[w].pc = "probing" => \A i \in 1..Len(c) : c[i] = "EEXIST"
       /\ fh.rf[w].pc = "returned" =>
            /\ c # <<>>
            /\ \A i \in 1..(Len(c) - 1) : c[i] = "EEXIST"
            /\ Last(c) # "EEXIST"
            /\ Last(c) = "ok" => (fh.rf[w].fresh /\ fh.rf[w].name \in fh.names)

\* C22 witness: a call has returned a handle after EEXIST in two iterations.
C22_Witness ==
  \E w \in Workers :
    /\ fh.rf[w].pc = "returned"
    /\ fh.rf[w].codes = <<"EEXIST", "EEXIST", "ok">>

\* ======================================================= sections and maps
\* One backing file, one section made of it and the map_handle objects that
\* map views of the section.

mframe == <<dvars, destroyed, flagsforce, flagsmask, hvars, pvars, lx, data,
            hist, fds>>

\* file(): the backing file is opened.
BackingOpen ==
  /\ fh.backing = "none"
  /\ fh' = [fh EXCEPT !.backing = "open"]

\* The backing file_handle is closed.
BackingClose ==
  /\ fh.backing = "open"
  /\ fh' = [fh EXCEPT !.backing = "closed"]

\* section_handle::section(backing, ...): the section holds a kernel
\* reference of its own.
SectionCreate ==
  /\ fh.backing = "open"
  /\ fh.section = "none"
  /\ fh' = [fh EXCEPT !.section = "open"]

\* The section_handle is closed; the views mapped from it stay.
SectionClose ==
  /\ fh.section = "open"
  /\ fh' = [fh EXCEPT !.section = "closed"]

\* map_handle::map(section, ...): a view is mapped at an address not in use.
MapCreate(m) ==
  LET free == Views \ fh.views
      v    == CHOOSE x \in free : \A y \in free : x <= y
  IN /\ fh.section = "open"
     /\ fh.maps[m].st = "none"
     /\ free # {}
     /\ fh' = [fh EXCEPT !.maps[m] = [st |-> "mapped", view |-> v],
                         !.views = @ \cup {v}]

\* The kernel's views after the view v is unmapped.
Unmapped(views, v) == views \ {v}

\* map_handle::close(): unmap the mapped view.
MapClose(m) ==
  /\ fh.maps[m].st = "mapped"
  /\ fh' = [fh EXCEPT !.maps[m] = [st |-> "closed", view |-> 0],
                      !.views = Unmapped(@, fh.maps[m].view)]

\* map_handle::release(): the object gives the view up; whether the view is
\* unmapped or left is not said.
MapRelease(m, keep) ==
  /\ fh.maps[m].st = "mapped"
  /\ fh' = [fh EXCEPT !.maps[m] = [st |-> "released", view |-> 0],
                      !.views = IF keep THEN @
                                ELSE Unmapped(@, fh.maps[m].view)]

\* map_handle::read / write: the buffers point into the view at _addr.
MapAccess(m) ==
  /\ fh.maps[m].st = "mapped"
  /\ fh' = [fh EXCEPT
              !.fault = @ \/ fh.maps[m].view \notin fh.views,
              !.touched = IF fh.section = "closed" THEN @ \cup {m} ELSE @]

\* map_handle(map_handle &&o): what is left in o.
MovedFromKept(o) == o
MovedFrom(o) == NoMap

\* map_handle &operator=(map_handle &&o): this->~map_handle(), which unmaps
\* the view the object owns, then new(this) map_handle(std::move(o)).
MapMoveAssign(m, o) ==
  /\ m # o
  /\ fh.maps[o].st # "none"
  /\ fh' = [fh EXCEPT
              !.views = IF fh.maps[m].view # 0
                        THEN Unmapped(@, fh.maps[m].view) ELSE @,
              !.maps = [@ EXCEPT ![m] = fh.maps[o],
                                 ![o] = MovedFrom(fh.maps[o])]]

MapNext ==
  \/ BackingOpen /\ UNCHANGED mframe
  \/ BackingClose /\ UNCHANGED mframe
  \/ SectionCreate /\ UNCHANGED mframe
  \/ SectionClose /\ UNCHANGED mframe
  \/ \E m \in Maps : MapCreate(m) /\ UNCHANGED mframe
  \/ \E m \in Maps : MapClose(m) /\ UNCHANGED mframe
  \/ \E m \in Maps, keep \in BOOLEAN : MapRelease(m, keep) /\ UNCHANGED mframe
  \/ \E m \in Maps : MapAccess(m) /\ UNCHANGED mframe
  \/ \E m, o \in Maps : MapMoveAssign(m, o) /\ UNCHANGED mframe

MapSpec == Init /\ [][MapNext]_vars

\* C23: a step that closes or releases a mapped map_handle leaves the
\* section and the backing file as they were and unmaps no view but that
\* handle's own, which close() does unmap; a step that closes the section
\* leaves the backing file, every map_handle and every view as they were;
\* the view of every mapped map_handle is mapped, and no read or write
\* through a map goes to unmapped memory.
C23_MapCloseLeavesSection ==
  /\ [][\A m \in Maps :
          (fh.maps[m].st = "mapped" /\ fh'.maps[m].st \in {"closed", "released"})
            => /\ fh'.section = fh.section
               /\ fh'.backing = fh.backing
               /\ fh.views \ {fh.maps[m].view} \subseteq fh'.views
               /\ fh'.maps[m].st = "closed" => fh.maps[m].view \notin fh'.views
       ]_vars
  /\ [][(fh.section = "open" /\ fh'.section = "closed")
          => /\ fh'.backing = fh.backing
             /\ fh'.maps = fh.maps
             /\ fh'.views = fh.views
       ]_vars
  /\ [](/\ ~fh.fault
        /\ \A m \in Maps :
             fh.maps[m].st = "mapped" => fh.maps[m].view \in fh.views)

\* C23 witness: with the section closed and with another map closed, a map
\* is mapped and has been read or written through since the section closed.
C23_Witness ==
  /\ fh.section = "closed"
  /\ \E m \in fh.touched, o \in Maps :
       /\ fh.maps[m].st = "mapped"
       /\ fh.maps[o].st = "closed"

\* ------------------------------------------------- waiting under the lock
\* future.get() on the reference of pre does not return yet: the reference
\* holds the future of the pool and the wrapper of pre has not returned.
Waits(pre) == refs[pre] = "pool" /\ future[pre].st = "pending"

\* C24: while a thread holds the ops lock, close() is not waiting in
\* i.h.get() on a future that is not ready, and there is no reference the
\* caller holds for which chain_async_op would wait in precondition.h.get()
\* (an op that has left the registry and whose future is not ready).
C24_NoWaitUnderLock ==
  \A s \in Submitters :
    sub[s].pc = "batch" =>
      /\ lx.stage = "get" => ~Waits(Last(sub[s].reqs))
      /\ \A pre \in known : ~InFlight(pre, ops) => ~Waits(pre)

\* ================================================= the wrapper and its calls
\* invoke_async_op_completions and boost_asio_completion_handler with the
\* calls of complete_async_op they make written to the history.
WrapCaller == "s1"

\* complete_async_op found id and did this with its detached promise.
Found(id, promise) ==
  [hist EXCEPT !.calls[id] = @ + 1, !.promise[id] = promise]

\* complete_async_op did not find id:
\* throw std::runtime_error("Failed to find this operation in list of
\* currently executing operations").
NotFound(id) == [hist EXCEPT !.calls[id] = @ + 1, !.missed = @ \cup {id}]

\* The primitive has returned or thrown.
WrapStartThunk(id) ==
  /\ StartThunk(id)
  /\ hist' = IF ~crashed' /\ thunk'[id].res = "threw"
             THEN [hist EXCEPT !.threw = @ \cup {id}] ELSE hist

\* complete_async_op(id, ret.second) of the try block, or
\* complete_async_op(id, h, e) of the catch block after the primitive threw.
WrapComplete(id) ==
  /\ Complete(id)
  /\ hist' = Found(id, Fulfilled(ops[id].detached_promise, thunk[id].res = "threw"))

\* The not-done return of a build without NDEBUG: when the lookup fails the
\* catch block calls complete_async_op(id, h, e), which does not find id
\* either.
WrapReturnNotDoneChecked(id) ==
  /\ ReturnNotDoneChecked(id)
  /\ hist' = IF id \notin DOMAIN ops THEN NotFound(id) ELSE hist

\* complete_async_op called by the completion handler or by the owner.
WrapCallback(id, ec) ==
  /\ Callback(id, ec)
  /\ hist' = Found(id, Fulfilled(ops[id].detached_promise, ec))

WrapNext ==
  \/ \E api \in Apis : BeginBatch(WrapCaller, api, 1, 1) /\ UNCHANGED xvars
  \/ ChainOne(WrapCaller) /\ UNCHANGED xvars
  \/ EndBatch(WrapCaller) /\ UNCHANGED xvars
  \/ \E id \in Ids : WrapStartThunk(id) /\ UNCHANGED wframe
  \/ \E id \in Ids : WrapComplete(id) /\ UNCHANGED wframe
  \/ \E id \in Ids : ReturnDone(id) /\ UNCHANGED xvars
  \/ \E id \in Ids : ReturnNotDone(id) /\ UNCHANGED xvars
  \/ \E id \in Ids : WrapReturnNotDoneChecked(id) /\ UNCHANGED wframe
  \/ \E id \in Ids, ec \in BOOLEAN : WrapCallback(id, ec) /\ UNCHANGED wframe

WrapSpec == Init /\ [][WrapNext]_vars

\* C25: a call of complete_async_op that does not find its id in the registry
\* aborts the process at once: whenever there has been such a call, the
\* process is terminated.
C25_AbortOnMissing == hist.missed # {} => crashed

\* C27: complete_async_op is called at most once for an id, and the call
\* finds the id in the registry.
C27_CompletedOnceAndFound ==
  \A id \in Ids : hist.calls[id] <= 1 /\ id \notin hist.missed

\* C28: an op whose primitive returned not done (and whose completion is
\* still to come) has a detached promise in its record.
C28_NotDoneHasPromise ==
  \A id \in DOMAIN ops :
    (thunk[id].res = "notdone" \/ thunk[id].io = "issued")
      => ops[id].detached_promise # "none"

\* C29: when the primitive of id throws, the wrapper calls
\* complete_async_op(id, h, e) with the exception exactly once: the call finds
\* the op and erases it, a detached promise is set to the exception and never
\* to a value, and the exception is rethrown, so that the future of the thunk
\* holds it once the wrapper is gone.
C29_ThrowCompletesOnce ==
  /\ [](\A id \in hist.threw :
          /\ hist.calls[id] <= 1
          /\ id \notin hist.missed
          /\ cmpl[id].called <=> hist.calls[id] = 1
          /\ cmpl[id].called <=> thunk[id].pc \in {"completed", "gone"}
          /\ cmpl[id].called =>
               /\ cmpl[id].e
               /\ id \notin DOMAIN ops
               /\ hist.promise[id] \in {"none", "exception"}
          /\ (thunk[id].pc = "gone" /\ refs[id] = "pool")
               => future[id].st = "exception")
  /\ [][\A id \in hist.threw :
          (id \in DOMAIN ops /\ id \notin DOMAIN ops')
            => /\ thunk[id].pc = "ran" /\ thunk'[id].pc = "completed"
               /\ ops[id].detached_promise # "none"
                    => hist'.promise[id] = "exception"]_vars

\* ===================================================== chain_async_op fails
\* dep->second.completions.push_back(boundf), and the pop_back() of the
\* Undoer undep.
Link(registry, pre, id) ==
  [registry EXCEPT ![pre].completions = Append(@, id)]
Unlink(registry, pre) ==
  [registry EXCEPT ![pre].completions = SubSeq(@, 1, Len(@) - 1)]

\* Where an allocation of chain_async_op can fail once the op is linked or
\* enqueued: in p->ops.insert(...), which leaves the registry as it was, or
\* in new promise<...> (taken only with detachedfuture).
FailurePoints(det) == IF det THEN {"insert", "promise"} ELSE {"insert"}

\* chain_async_op ends by std::bad_alloc thrown at the point `at`. The
\* Undoers run in reverse order of construction: unopsit (made after the
\* insert) erases the registry entry, undep removes the link when done was
\* set. The exception then leaves the entry point: the vector of references
\* built so far is destroyed and the lock_guard unlocks.
ChainFails(s, pre, det, at) ==
  LET b        == sub[s]
      thisid   == AllocId(monotoniccount)
      done     == InFlight(pre, ops)
      valid    == pre # 0 /\ refs[pre] = "pool"
      h        == IF valid THEN future[pre].val ELSE NullHandle
      bound    == [NoThunk EXCEPT !.optype = OpTypeOf(b.api), !.pre = pre]
      rec      == [optype |-> OpTypeOf(b.api),
                   h |-> IF done THEN "invalid" ELSE "pool",
                   detached_promise |-> "none",
                   completions |-> <<>>]
      linked   == IF done THEN Link(ops, pre, thisid) ELSE ops
      inserted == IF at = "insert" THEN linked ELSE Insert(linked, thisid, rec)
      unopsit  == IF at = "insert" THEN inserted ELSE Erase(inserted, thisid)
      undep    == IF done THEN Unlink(unopsit, pre) ELSE unopsit
  IN
  /\ at \in FailurePoints(det)
  /\ monotoniccount' = thisid
  /\ allocs' = Append(allocs, thisid)
  /\ ~done => (valid => future[pre].st = "value")
  /\ ops' = undep
  /\ IF done
     THEN UNCHANGED <<pool, thunk>>
     ELSE \* threadpool().enqueue(...) of line 445 is not undone
          /\ pool' = Append(pool, thisid)
          /\ thunk' = [thunk EXCEPT ![thisid] =
                         [bound EXCEPT !.pc = "queued", !.h = h]]
  /\ sub' = [sub EXCEPT ![s] = NoSub]
  /\ opslock' = Free
  /\ hist' = [hist EXCEPT !.abandoned = @ \cup {thisid}]
  /\ UNCHANGED <<backend, future, refs, known, cmpl, crashed>>

\* One iteration of the entry point's loop that ends by the exception.
ChainOneFails(s) ==
  /\ ~crashed
  /\ sub[s].pc = "batch"
  /\ Len(sub[s].ret) < LoopLimit(sub[s].n, sub[s].ncb)
  /\ \E pre \in known \cup {0} :
       /\ PrimClass(OpTypeOf(sub[s].api), backend) \in {"handle", "overlapped"}
            => pre # 0
       /\ \E det \in BOOLEAN :
            /\ sub[s].api # "completion" => det = DetachedFuture(sub[s].api, backend)
            /\ \E at \in FailurePoints(det) : ChainFails(s, pre, det, at)

\* The wrapper of a thunk whose id is not in the registry: after a done
\* return complete_async_op(id, ret.second) throws at line 295 and the catch
\* block's complete_async_op(id, h, e) throws again; after a throw of the
\* primitive only the catch block's call is made.
CompleteMissing(id) ==
  /\ ~crashed
  /\ thunk[id].pc = "ran"
  /\ thunk[id].res \in {"done", "threw"}
  /\ TryLock(opslock)
  /\ id \notin DOMAIN ops
  /\ thunk' = [thunk EXCEPT ![id] = Returned(@)]
  /\ MakeReady(id, "exception", NullHandle)
  /\ hist' = [hist EXCEPT !.calls[id] = @ + (IF thunk[id].res = "done" THEN 2 ELSE 1),
                          !.missed = @ \cup {id}]
  /\ UNCHANGED <<backend, monotoniccount, ops, opslock, pool, refs,
                 sub, known, allocs, cmpl, crashed>>

RollbackNext ==
  \/ \E api \in Apis : BeginBatch(WrapCaller, api, 1, 1) /\ UNCHANGED xvars
  \/ ChainOne(WrapCaller) /\ UNCHANGED xvars
  \/ EndBatch(WrapCaller) /\ UNCHANGED xvars
  \/ \E id \in Ids : WrapStartThunk(id) /\ UNCHANGED wframe
  \/ \E id \in Ids : WrapComplete(id) /\ UNCHANGED wframe
  \/ \E id \in Ids : ReturnDone(id) /\ UNCHANGED xvars
  \/ \E id \in Ids : ReturnNotDone(id) /\ UNCHANGED xvars
  \/ \E id \in Ids : WrapReturnNotDoneChecked(id) /\ UNCHANGED wframe
  \/ \E id \in Ids, ec \in BOOLEAN : WrapCallback(id, ec) /\ UNCHANGED wframe
  \/ ChainOneFails(WrapCaller) /\ UNCHANGED wframe
  \/ \E id \in Ids : CompleteMissing(id) /\ UNCHANGED wframe

RollbackSpec == Init /\ [][RollbackNext]_vars

\* C26: when chain_async_op fails after it has linked or enqueued the new
\* op, the registry (completion lists included) is what it was before the
\* call, and the abandoned id has no thunk: none is chained, none is queued,
\* none is run.
C26_FailureRolledBack ==
  /\ [](\A id \in hist.abandoned :
          /\ thunk[id].pc = "none"
          /\ id \notin Range(pool)
          /\ id \notin DOMAIN ops
          /\ \A p \in DOMAIN ops : id \notin Range(ops[p].completions))
  /\ [][hist'.abandoned # hist.abandoned => ops' = ops]_vars

\* C30: in the chain close() adds after the close of an ever-fsynced file,
\* the sync of the directory handle issues a kernel flush: once that sync op
\* has completed without error, its dosync has called posix_fsync.
C30_DirSyncFlushes ==
  \A c \in DOMAIN lx.follow :
    LET syncdirop == lx.follow[c][2]
    IN (cmpl[syncdirop].called /\ ~cmpl[syncdirop].e)
         => syncdirop \in lx.fsyncs

\* C31: a dir op whose effective flags hold Create and not
\* CreateOnlyIfNotExist, and whose mkdir made the directory or found the one
\* another dir op had just made, ends without error.
C31_CreateRaceBothSucceed ==
  \A w \in Workers :
    ( /\ pw[w].prim = "dir"
      /\ pw[w].pc = "done"
      /\ "Create" \in pw[w].eff
      /\ "CreateOnlyIfNotExist" \notin pw[w].eff
      /\ pw[w].found \in {"none", "dir"} )
      => pw[w].out # "error"

\* ================================================= handles and descriptors
\* The posix handles of a compat dispatcher, the table p->fds and the two
\* spinlocks. Any worker may run dofile, doclose on a live handle, or the
\* destructor of a live handle no primitive is running on; the destructor
\* runs where the last reference is dropped, which may be inside
\* complete_async_op, under the ops lock.
tframe == <<backend, monotoniccount, ops, pool, thunk, future, refs, sub,
            known, allocs, cmpl, crashed, destroyed, flagsforce, flagsmask,
            hvars, pvars, lx, data, hist, fh>>

\* open() returns the lowest descriptor number that is not open.
Lowest(S) == CHOOSE k \in S : \A j \in S : k <= j
FreeDescs == {k \in Descs : fds.open[k] = 0}

\* p->fds.insert(make_pair(key, weak_ptr)): an entry with that key stays.
Inserted(table, key, x) ==
  IF table[key] = 0 THEN [table EXCEPT ![key] = x] ELSE table
\* p->fds.erase(key)
Erased(table, key) ==
  IF key \in DOMAIN table THEN [table EXCEPT ![key] = 0] ELSE table

\* The lock_guard of int_add_io_handle, int_del_io_handle and count() leaves
\* its scope: the holder of fdslock afterwards.
StillLocked(w) == w
Unlocked(w) == 0

\* posix_close(k) made through handle x: the kernel closes descriptor k,
\* whichever open made it.
Closed(k, x) ==
  [fds EXCEPT !.open[k] = 0,
              !.closes[x] = @ + 1,
              !.stolen = IF fds.open[k] # x THEN @ \cup {fds.open[k]} ELSE @]

\* dofile: posix_open and the constructor of async_io_handle_posix (which
\* throws when open failed, so a handle is made only around a descriptor).
TableOpen(w, x) ==
  /\ fds.t[w].pc = "idle"
  /\ fds.h[x].st = "none"
  /\ FreeDescs # {}
  /\ fds' = [fds EXCEPT !.open[Lowest(FreeDescs)] = x,
                        !.h[x] = [st |-> "live", fd |-> Lowest(FreeDescs),
                                  has_been_added |-> FALSE],
                        !.t[w] = [NoStep EXCEPT !.pc = "add", !.h = x]]
  /\ UNCHANGED opslock

\* do_add_io_handle_to_parent -> int_add_io_handle: the lock_guard takes
\* p->fdslock.
TableAddLock(w) ==
  /\ fds.t[w].pc = "add"
  /\ fds.lock = 0
  /\ fds' = [fds EXCEPT !.lock = w, !.t[w].pc = "adding"]
  /\ UNCHANGED opslock

\* int_add_io_handle: insert, unlock; then has_been_added=true and dofile
\* returns the handle.
TableAdd(w) ==
  LET x == fds.t[w].h
  IN /\ fds.t[w].pc = "adding"
     /\ fds' = [fds EXCEPT !.table = Inserted(@, fds.h[x].fd, x),
                           !.lock = Unlocked(w),
                           !.h[x].has_been_added = TRUE,
                           !.t[w] = NoStep]
     /\ UNCHANGED opslock

\* doclose(id, h, op) evaluates p->fd for its calls.
TableCloseRead(w, x) ==
  /\ fds.t[w].pc = "idle"
  /\ fds.h[x].st = "live"
  /\ \A v \in Workers : fds.t[v].h = x => fds.t[v].pc = "close"
  /\ fds' = [fds EXCEPT !.t[w] = [NoStep EXCEPT !.pc = "close", !.h = x,
                                                !.fd = fds.h[x].fd]]
  /\ UNCHANGED opslock

\* doclose: ERRHOSFN(posix_close(p->fd)) throws on EBADF; else p->fd=-1.
TableClose(w) ==
  LET x == fds.t[w].h
      k == fds.t[w].fd
  IN /\ fds.t[w].pc = "close"
     /\ fds' = IF k = NoDesc \/ fds.open[k] = 0
               THEN [fds EXCEPT !.t[w] = NoStep]
               ELSE [Closed(k, x) EXCEPT !.h[x].fd = NoDesc, !.t[w] = NoStep]
     /\ UNCHANGED opslock

\* The last reference to handle x is dropped by thread w, inside
\* complete_async_op (the record is erased under the ops lock) or elsewhere:
\* ~async_io_handle_posix() begins.
TableDestroy(w, x, under) ==
  /\ fds.t[w].pc = "idle"
  /\ fds.h[x].st = "live"
  /\ \A v \in Workers : fds.t[v].h # x
  /\ under => TryLock(opslock)
  /\ opslock' = IF under THEN <<"worker", w>> ELSE opslock
  /\ fds' = [fds EXCEPT !.h[x].st = "dying",
                        !.t[w] = [NoStep EXCEPT
                                    !.pc = IF fds.h[x].has_been_added
                                           THEN "del" ELSE "dtor",
                                    !.h = x, !.ops = under]]

\* if(has_been_added) int_del_io_handle((void *)(size_t)fd): the lock_guard
\* takes p->fdslock.
TableDelLock(w) ==
  /\ fds.t[w].pc = "del"
  /\ fds.lock = 0
  /\ fds' = [fds EXCEPT !.lock = w, !.t[w].pc = "deleting"]
  /\ UNCHANGED opslock

\* int_del_io_handle: erase the key, unlock.
TableDel(w) ==
  LET x == fds.t[w].h
  IN /\ fds.t[w].pc = "deleting"
     /\ fds' = [fds EXCEPT !.table = Erased(@, fds.h[x].fd),
                           !.lock = Unlocked(w),
                           !.t[w].pc = "dtor"]
     /\ UNCHANGED opslock

\* The destructor's if(fd>=0) { ...; posix_close(fd); fd=-1; }; the handle is
\* gone, and complete_async_op returns and unlocks.
TableDestructed(w) ==
  LET x == fds.t[w].h
      k == fds.h[x].fd
      c == IF k # NoDesc /\ fds.open[k] # 0 THEN Closed(k, x) ELSE fds
  IN /\ fds.t[w].pc = "dtor"
     /\ fds' = [c EXCEPT !.h[x] = [st |-> "gone", fd |-> NoDesc,
                                    has_been_added |-> @.has_been_added],
                         !.t[w] = NoStep]
     /\ opslock' = IF fds.t[w].ops THEN Free ELSE opslock

\* count(): the lock_guard takes p->fdslock.
TableCountLock(w) ==
  /\ fds.t[w].pc = "idle"
  /\ fds.lock = 0
  /\ fds' = [fds EXCEPT !.lock = w, !.t[w].pc = "counting"]
  /\ UNCHANGED opslock

\* count(): return p->fds.size(); unlock.
TableCounted(w) ==
  /\ fds.t[w].pc = "counting"
  /\ fds' = [fds EXCEPT !.lock = Unlocked(w), !.t[w] = NoStep]
  /\ UNCHANGED opslock

TableNext ==
  \/ \E w \in Workers, x \in Handles : TableOpen(w, x) /\ UNCHANGED tframe
  \/ \E w \in Workers : TableAddLock(w) /\ UNCHANGED tframe
  \/ \E w \in Workers : TableAdd(w) /\ UNCHANGED tframe
  \/ \E w \in Workers, x \in Handles : TableCloseRead(w, x) /\ UNCHANGED tframe
  \/ \E w \in Workers : TableClose(w) /\ UNCHANGED tframe
  \/ \E w \in Workers, x \in Handles, under \in BOOLEAN :
       TableDestroy(w, x, under) /\ UNCHANGED tframe
  \/ \E w \in Workers : TableDelLock(w) /\ UNCHANGED tframe
  \/ \E w \in Workers : TableDel(w) /\ UNCHANGED tframe
  \/ \E w \in Workers : TableDestructed(w) /\ UNCHANGED tframe
  \/ \E w \in Workers : TableCountLock(w) /\ UNCHANGED tframe
  \/ \E w \in Workers : TableCounted(w) /\ UNCHANGED tframe

TableInit ==
  /\ Init
  /\ backend = "compat"

TableSpec == TableInit /\ [][TableNext]_vars

\* size_t count() const: p->fds.size()
count == Cardinality({k \in Descs : fds.table[k] # 0})

\* No thread is inside dofile, doclose, a destructor or count().
Quiet == \A w \in Workers : fds.t[w].pc = "idle"

\* C32: whenever no thread is at work on a handle, the table holds an entry
\* for exactly the live handles, each under the descriptor number the handle
\* was opened with; so count() is 0 once every handle is destroyed.
C32_TableIsLiveHandles ==
  Quiet =>
    /\ {fds.table[k] : k \in Descs} \ {0}
         = {x \in Handles : fds.h[x].st = "live"}
    /\ (\A x \in Handles : fds.h[x].st # "live") => count = 0

\* C39: the descriptor of a posix handle is closed at most once: no handle
\* has more than one successful posix_close made through it, none loses its
\* descriptor to a close made through another handle, and a handle through
\* which a close succeeded holds -1 once no thread is at work.
C39_ClosedAtMostOnce ==
  /\ \A x \in Handles :
       /\ fds.closes[x] <= 1
       /\ (Quiet /\ fds.closes[x] = 1) => fds.h[x].fd = NoDesc
  /\ fds.stolen = {}

\* The thread is at the lock_guard of int_add_io_handle, int_del_io_handle or
\* count(), waiting for p->fdslock.
WantsFds(w) == fds.t[w].pc \in {"add", "del", "count"}
\* The thread is inside one of those three functions, holding p->fdslock.
InsideFds(w) == fds.t[w].pc \in {"adding", "deleting", "counting"}

\* C36: the two locks are taken in one order. A thread that holds the fds
\* lock is inside int_add_io_handle, int_del_io_handle or count(), which take
\* no lock, so it never takes the ops lock; a thread never waits for the fds
\* lock while it holds it; the ops lock is taken only when free and by a
\* thread that holds neither lock; and whenever a thread waits for the fds
\* lock, its holder can go on and release it.
C36_LockOrder ==
  /\ [](\A w \in Workers :
          /\ fds.lock = w <=> InsideFds(w)
          /\ WantsFds(w) => fds.lock # w
          /\ fds.t[w].ops <=> opslock = <<"worker", w>>
          /\ (WantsFds(w) /\ fds.lock # 0) => InsideFds(fds.lock))
  /\ [][\A w \in Workers :
          (~fds.t[w].ops /\ fds'.t[w].ops)
            => (fds.lock # w /\ opslock = Free)]_vars
C36_Witness ==
  \E v, w \in Workers :
    /\ v # w
    /\ fds.t[w].ops
    /\ fds.lock = w
    /\ fds.t[v].pc \in {"add", "del"}

\* ============================================================== open flags
\* dofile of the compat backend called with every combination of the flags
\* it maps, on a build that sees O_DIRECT and O_SYNC defined or O_SYNC only.
MappedFlags == {"Read", "Write", "Append", "Truncate", "Create",
                "CreateOnlyIfNotExist", "OSDirect", "OSSync"}
FlagCaller == 1

FlagNext ==
  \/ \E flags \in SUBSET MappedFlags :
       FileCall(FlagCaller, flags) /\ UNCHANGED pframe
  \/ \E res \in {"created", "opened", "failed"} :
       DoFile(FlagCaller, res) /\ UNCHANGED pframe

FlagInit ==
  /\ DispatcherInit
  /\ backend = "compat"
  /\ flagsforce = {}
  /\ flagsmask = {}
  /\ HandleIdle
  /\ path \in {[NoPath EXCEPT !.macros = m] : m \in {LinuxMacros, {"O_SYNC"}}}
  /\ pw = [w \in Workers |-> NoCall]
  /\ lx = NoLinux
  /\ data = NoData
  /\ hist = NoHist
  /\ fh = NoFiles
  /\ fds = NoTable

FlagSpec == FlagInit /\ [][FlagNext]_vars

\* C33: the flags dofile of the compat backend gives to open are those of
\* the mapping table for the effective flags of the call: the access mode
\* from Read and Write, and one open flag for each other flag where the
\* platform defines it.
C33_OpenFlagsFollowTable ==
  \A w \in Workers :
    LET eff == pw[w].acted
        macros == path.macros
    IN (pw[w].prim = "file" /\ pw[w].pc = "done") =>
         /\ pw[w].oflags.mode =
              (IF {"Read", "Write"} \subseteq eff THEN "O_RDWR"
               ELSE IF "Write" \in eff THEN "O_WRONLY" ELSE "O_RDONLY")
         /\ "O_APPEND" \in pw[w].oflags.bits <=> "Append" \in eff
         /\ "O_TRUNC" \in pw[w].oflags.bits <=> "Truncate" \in eff
         /\ "O_CREAT" \in pw[w].oflags.bits
              <=> eff \cap {"Create", "CreateOnlyIfNotExist"} # {}
         /\ "O_EXCL" \in pw[w].oflags.bits <=> "CreateOnlyIfNotExist" \in eff
         /\ "O_DIRECT" \in pw[w].oflags.bits
              <=> ("OSDirect" \in eff /\ "O_DIRECT" \in macros)
         /\ "O_SYNC" \in pw[w].oflags.bits
              <=> ("OSSync" \in eff /\ "O_SYNC" \in macros)

\* ========================================================== the id counter
\* A dispatcher whose counter earlier calls have brought to any value, and
\* the ids the next calls of chain_async_op allocate.
MaxAllocs == 8

\* chain_async_op, its first statements: the id is allocated.
CounterAlloc ==
  /\ Len(allocs) < MaxAllocs
  /\ monotoniccount' = AllocId(monotoniccount)
  /\ allocs' = Append(allocs, monotoniccount')
  /\ UNCHANGED <<backend, ops, opslock, pool, thunk, future, refs, sub,
                 known, cmpl, crashed, xvars>>

CounterNext == CounterAlloc

CounterInit ==
  /\ backend \in {"windows", "compat"}
  /\ monotoniccount \in 0..(2 ^ CounterWidth - 1)
  /\ ops = <<>>
  /\ opslock = Free
  /\ pool = <<>>
  /\ thunk = [i \in Ids |-> NoThunk]
  /\ future = [i \in Ids |-> NoFuture]
  /\ refs = [i \in Ids |-> "none"]
  /\ sub = [s \in Submitters |-> NoSub]
  /\ known = {}
  /\ allocs = <<>>
  /\ cmpl = [i \in Ids |-> NotCalled]
  /\ crashed = FALSE
  /\ destroyed = FALSE
  /\ flagsforce = {}
  /\ flagsmask = {}
  /\ HandleIdle
  /\ PathIdle
  /\ lx = NoLinux
  /\ data = NoData
  /\ hist = NoHist
  /\ fh = NoFiles
  /\ fds = NoTable

CounterSpec == CounterInit /\ [][CounterNext]_vars

\* C34: no id the allocator hands out is 0, also when the counter wraps
\* around: every id is in 1..2^w-1, and the id after 2^w-1 is 1.
C34_NeverZero ==
  /\ \A i \in DOMAIN allocs : allocs[i] \in 1..(2 ^ CounterWidth - 1)
  /\ \A i \in DOMAIN allocs :
       (i > 1 /\ allocs[i - 1] = 2 ^ CounterWidth - 1) => allocs[i] = 1
C34_Witness ==
  \E i \in DOMAIN allocs :
    i > 1 /\ allocs[i - 1] = 2 ^ CounterWidth - 1 /\ allocs[i] = 1

eframe == <<destroyed, flagsforce, flagsmask, hvars, pvars, lx, data, fh, fds>>

\* The caller's reference of pre holds a future that is ready with an
\* exception, and the op has left the registry.
Errored(pre) ==
  /\ pre # 0
  /\ ~InFlight(pre, ops)
  /\ refs[pre] = "pool"
  /\ future[pre].st = "exception"

\* chain_async_op for the request at place Len(ret) + 1 of the call of s.
AskedChainOne(s) ==
  \E pre \in known \cup {0} :
    /\ ChainOneOn(s, pre)
    /\ hist' = [hist EXCEPT !.asked =
                  Append(@, [id |-> AllocId(monotoniccount), pre |-> pre,
                             k |-> Len(sub[s].ret) + 1,
                             n |-> LoopLimit(sub[s].n, sub[s].ncb)])]

ErrorNext ==
  \/ \E s \in Submitters, api \in Apis, n \in 1..MaxBatch, ncb \in 1..MaxBatch :
       BeginBatch(s, api, n, ncb) /\ UNCHANGED xvars
  \/ \E s \in Submitters : AskedChainOne(s) /\ UNCHANGED eframe
  \/ \E s \in Submitters : EndBatch(s) /\ UNCHANGED xvars
  \/ \E id \in Ids : StartThunk(id) /\ UNCHANGED xvars
  \/ \E id \in Ids : Complete(id) /\ UNCHANGED xvars
  \/ \E id \in Ids : ReturnDone(id) /\ UNCHANGED xvars
  \/ \E id \in Ids : ReturnNotDone(id) /\ UNCHANGED xvars
  \/ \E id \in Ids : ReturnNotDoneChecked(id) /\ UNCHANGED xvars
  \/ \E id \in Ids, ec \in BOOLEAN : Callback(id, ec) /\ UNCHANGED xvars

ErrorSpec == Init /\ [][ErrorNext]_vars

\* C38: a call of chain_async_op whose precondition has left the registry
\* and whose future holds an exception ends the entry point's call by that
\* exception: the id is consumed, and the registry with its completion lists,
\* the pool's queue, the thunks and the references the callers hold are what
\* they were; the call is over and the lock is free, so the requests behind
\* it are not submitted. An id for which no thunk was bound has no registry
\* entry, no link and no reference, and the next call of chain_async_op is
\* the first of another call of an entry point.
C38_ErroredPreconditionThrows ==
  /\ [][\A s \in Submitters :
          ( /\ sub[s].pc = "batch"
            /\ Len(hist'.asked) = Len(hist.asked) + 1
            /\ Errored(hist'.asked[Len(hist'.asked)].pre) )
            => /\ sub'[s] = NoSub
               /\ opslock' = Free
               /\ monotoniccount' = hist'.asked[Len(hist'.asked)].id
               /\ <<ops, pool, thunk, refs, future, known>>' =
                    <<ops, pool, thunk, refs, future, known>>]_vars
  /\ [](\A i \in DOMAIN hist.asked :
          LET a == hist.asked[i]
          IN thunk[a.id] = NoThunk =>
               /\ a.id \notin DOMAIN ops
               /\ a.id \notin Range(pool)
               /\ a.id \notin known
               /\ refs[a.id] = "none"
               /\ \A p \in DOMAIN ops : a.id \notin Range(ops[p].completions)
               /\ (i + 1) \in DOMAIN hist.asked => hist.asked[i + 1].k = 1)

\* C38 witness: the first of two requests of a call was submitted on a
\* precondition that had completed with an error, and its id has no thunk.
C38_Witness ==
  \E i \in DOMAIN hist.asked :
    LET a == hist.asked[i]
    IN /\ Errored(a.pre)
       /\ a.k < a.n
       /\ thunk[a.id] = NoThunk
       /\ a.id \in Range(allocs)

\* ================================================================ progress
\* The linux close layer under fair scheduling. A pool thread that can take
\* a thunk, call complete_async_op or return does so (the threads of the
\* pool run io_service::run and do nothing else); the thread inside dir(),
\* file(), sync() or close() goes on with its call. A caller need not call
\* again.
CloseWorker ==
  \E id \in Ids :
    \/ CloseStartThunk(id) /\ UNCHANGED lframe
    \/ Complete(id) /\ UNCHANGED xvars
    \/ ReturnDone(id) /\ UNCHANGED xvars

CloseCall ==
  \/ CloseChainOne(CloseCaller) /\ UNCHANGED lframe
  \/ LinuxClose(CloseCaller) /\ UNCHANGED lframe
  \/ lx.stage = "none" /\ EndBatch(CloseCaller) /\ UNCHANGED xvars

CloseLive ==
  /\ CloseInit
  /\ [][CloseNext]_vars
  /\ WF_vars(CloseWorker)
  /\ WF_vars(CloseCall)

\* C35: under fair scheduling every op in the registry is eventually
\* completed and erased, and the call of an entry point eventually returns
\* or throws, as long as the process has not terminated abnormally.
C35_AllComplete ==
  /\ \A id \in Ids : (id \in DOMAIN ops) ~> (id \notin DOMAIN ops \/ crashed)
  /\ (sub[CloseCaller].pc = "batch") ~> (sub[CloseCaller].pc = "idle" \/ crashed)

====
